---- MODULE Spec2Model ----
(***************************************************************************)
(* Model of llvm-brainfuck: the lexer and the peephole optimizer           *)
(* (src/src/bf.rs), the code generator compile (src/src/main.rs and        *)
(* src/src/compiler.rs) and the function it generates.                     *)
(*                                                                         *)
(* The optimizer is the struct InstructionList {list, loop_comment_depth}  *)
(* with the single mutating operation push(insn); optimize and parse_bf    *)
(* are loops that call push once per instruction and return the list.      *)
(*                                                                         *)
(* Rust's `+` and `-` on i8 / usize are build dependent: with overflow     *)
(* checks (the default of `cargo build`, `cargo run` and `cargo test`) an  *)
(* out-of-range result panics, without them (`--release`) it wraps.  The   *)
(* variable overflow_checks is the build profile, chosen once in Init.     *)
(***************************************************************************)
EXTENDS Integers, Sequences, FiniteSets, TLC

VARIABLES
    list,                 \* InstructionList.list : Vec<BfInstruction>
    loop_comment_depth,   \* InstructionList.loop_comment_depth : u32
    status,               \* "ok", or "panicked" once a push has panicked
    overflow_checks,      \* build profile: TRUE = arithmetic overflow panics
    input,                \* the instructions pushed so far, in order
    source,               \* parse_bf: the characters of the source read so far
    machine,              \* compile: its argument, a BfMachine
    gen,                  \* compile: the locals of the code generator
    run                   \* the state of one call of the generated function

vars == <<list, loop_comment_depth, status, overflow_checks, input,
          source, machine, gen, run>>

----------------------------------------------------------------------------
(* Bounds of the model *)

\* number of push calls in the general specification
MaxPush == 3
\* number of push calls in the loop specification (small alphabet)
MaxLoopPush == 6
\* largest magnitude of an AddPointer / SetPointer payload that is pushed
MaxPtr == 1
\* number of characters of a source text read by parse_bf
MaxSource == 4
\* number of instructions of a compiled BfMachine
MaxInsns == 4
\* number of instructions of a BfMachine whose generated function is run
MaxRunInsns == 3
\* number of bytes the generated function writes with putchar
MaxOutput == 2
\* number of instructions of a BfMachine run under the Abort policy
MaxAbortInsns == 3
\* cache_size of the machine that runs hello_world
HelloCache == 5
\* number of bytes the function generated for hello_world may write
MaxHelloOutput == 14
\* number of instructions of a BfMachine with 64-bit payloads
MaxWideInsns == 2
\* number of instructions of a compiled BfMachine with debug logging
MaxDebugInsns == 3
\* largest cache_size of a compiled BfMachine
MaxCache == 2
\* largest magnitude of a payload in the specification of AddPointer pairs
\* (beyond the range of i8, the width of a cell)
MaxPairPtr == 130

(* Widths of the program's integers *)
I8Min == -128
I8Max == 127
I8Mod == 256

I8 == I8Min..I8Max

\* i32, the type of index_var, of cache_size and of the loop counter in the
\* generated code; a value of it is written as its signed reading
I32Max == 2147483647
I32Min == -I32Max - 1

----------------------------------------------------------------------------
(* enum BfInstruction *)

SetValue(v)   == [op |-> "SetValue",   v |-> v]
SetPointer(v) == [op |-> "SetPointer", v |-> v]
AddValue(v)   == [op |-> "AddValue",   v |-> v]
AddPointer(v) == [op |-> "AddPointer", v |-> v]
Input         == [op |-> "Input",      v |-> 0]
Output        == [op |-> "Output",     v |-> 0]
BeginLoop     == [op |-> "BeginLoop",  v |-> 0]
EndLoop       == [op |-> "EndLoop",    v |-> 0]

\* Option::None of self.list.last() and self.list.get(i)
None          == [op |-> "None",       v |-> 0]

----------------------------------------------------------------------------
(* Integer arithmetic of the build *)

\* two's complement wrap of x to i8 (what `+` yields without overflow checks)
WrapI8(x) == ((x - I8Min) % I8Mod) + I8Min

\* does the i8 addition a + b leave the range of i8
OverflowsI8(a, b) == (a + b < I8Min) \/ (a + b > I8Max)

\* Rust's `%` truncates toward zero: the result has the sign of the dividend
RemI8(a, b) == IF a >= 0 THEN a % b ELSE -((-a) % b)

\* value % 2 != 0
IsOdd(value) == RemI8(value, 2) # 0

----------------------------------------------------------------------------
(* struct InstructionList *)

\* InstructionList::new()
new == [list |-> <<>>, loop_comment_depth |-> 0, status |-> "ok"]

\* self.list.last()
last(self) == IF Len(self.list) = 0 THEN None ELSE self.list[Len(self.list)]

\* self.list.get(i) for a usize i that did not wrap
get(self, i) == IF i >= 0 /\ i < Len(self.list) THEN self.list[i + 1] ELSE None

\* self.list.pop()
pop(self) == [self EXCEPT !.list = SubSeq(@, 1, Len(@) - 1)]

\* self.list.push(insn)
\* (variant: the instruction is appended twice)
push_internalTwice(self, insn) == [self EXCEPT !.list = Append(Append(@, insn), insn)]
push_internal(self, insn) == [self EXCEPT !.list = Append(@, insn)]

\* a panic unwinds out of push and of its callers: the run ends
Panic(self) == [self EXCEPT !.status = "panicked"]

----------------------------------------------------------------------------
(* InstructionList::push, one definition per match arm *)

\* (_, AddValue(0)): the incoming instruction is skipped
\* (variant: the arm is missing)
IsAddZeroNever(insn) == FALSE
IsAddZero(insn) == insn = AddValue(0)

\* (Some(&SetValue(_)), SetValue(_)) | (Some(&AddValue(_)), SetValue(_))
\* (variant: the AddValue alternative of the pattern is missing)
OverridesValueSetOnly(l, insn) == l.op = "SetValue" /\ insn.op = "SetValue"
OverridesValue(l, insn) == l.op \in {"SetValue", "AddValue"} /\ insn.op = "SetValue"

\* (Some(&SetPointer(_)), SetPointer(_)) | (Some(&AddPointer(_)), SetPointer(_))
OverridesPointer(l, insn) ==
    l.op \in {"SetPointer", "AddPointer"} /\ insn.op = "SetPointer"

\* (Some(&SetValue(0)), BeginLoop) | (Some(&EndLoop), BeginLoop)
\* (variant: the EndLoop alternative of the pattern is missing)
EntersDeadLoopSetOnly(l, insn) == l = SetValue(0) /\ insn = BeginLoop
EntersDeadLoop(l, insn) == l \in {SetValue(0), EndLoop} /\ insn = BeginLoop

\* (Some(&EndLoop), SetValue(0)): the incoming instruction is dropped
IsPostLoopZero(l, insn) == l = EndLoop /\ insn = SetValue(0)

\* The guard of the arm (Some(&AddValue(value)), EndLoop):
\*     value % 2 != 0 && self.list.get(self.list.len() - 2) == Some(&BeginLoop)
\* `&&` evaluates the index only for an odd value.  len() - 2 is a usize
\* subtraction: for len() = 1 it panics under overflow checks and otherwise
\* wraps to an index past the end, for which get returns None.
\* Result: "fire", "skip" (guard false, the next arms are tried) or "panic".
OddLoopGuard(self, value, oc) ==
    IF ~IsOdd(value) THEN "skip"
    ELSE IF Len(self.list) - 2 < 0
         THEN IF oc THEN "panic" ELSE "skip"
         ELSE IF get(self, Len(self.list) - 2) = BeginLoop THEN "fire" ELSE "skip"

\* the suppression branch: if self.loop_comment_depth != 0 { ... return; }
\* (the decrement is guarded by depth != 0; the increment of the u32 would
\* overflow only after 2^32 nested loops, outside every bound used here)
\* (variant: nested BeginLoop is not counted)
push_suppressedFlat(self, insn) ==
    IF insn = EndLoop THEN [self EXCEPT !.loop_comment_depth = @ - 1] ELSE self
\* (variant: an instruction that is no loop delimiter is emitted)
push_suppressedKeeps(self, insn) ==
    IF insn = BeginLoop
    THEN [self EXCEPT !.loop_comment_depth = @ + 1]
    ELSE IF insn = EndLoop
         THEN [self EXCEPT !.loop_comment_depth = @ - 1]
         ELSE push_internal(self, insn)
push_suppressed(self, insn) ==
    IF insn = BeginLoop
    THEN [self EXCEPT !.loop_comment_depth = @ + 1]
    ELSE IF insn = EndLoop
         THEN [self EXCEPT !.loop_comment_depth = @ - 1]
         ELSE self

RECURSIVE push(_, _, _)

\* the recursive call self.push(..) that re-inserts a rewritten instruction
\* (variant: push_internal is called in place of push)
ReinsertRaw(self, insn, oc) == push_internal(self, insn)
Reinsert(self, insn, oc) == push(self, insn, oc)

\* value + other on i8, followed by the re-insertion of make(sum)
\* (AddValue / SetValue payloads; pointer payloads are i64 and stay far from
\* the i64 limits within the bounds of the model)
MergeAddValue(self, value, other, oc) ==
    IF OverflowsI8(value, other) /\ oc
    THEN Panic(pop(self))
    ELSE Reinsert(pop(self), AddValue(WrapI8(value + other)), oc)

MergeSetAdd(self, value, other, oc) ==
    IF OverflowsI8(value, other) /\ oc
    THEN Panic(pop(self))
    ELSE Reinsert(pop(self), SetValue(WrapI8(value + other)), oc)

\* (Some(&AddPointer(value)), AddPointer(other)):
\*     self.push(AddPointer(value + other)) on i64
\* (variant: the sum is wrapped to the width of a cell)
MergeAddPointerI8(self, value, other, oc) ==
    Reinsert(pop(self), AddPointer(WrapI8(value + other)), oc)
MergeAddPointer(self, value, other, oc) ==
    Reinsert(pop(self), AddPointer(value + other), oc)

\* (Some(&EndLoop), AddValue(value)) => self.push(SetValue(value))
\* (variant: the AddValue is appended as it came)
PostLoopAddKeepsAdd(self, value, oc) == push_internal(self, AddValue(value))
PostLoopAdd(self, value, oc) == Reinsert(self, SetValue(value), oc)

\* fn push(&mut self, insn: BfInstruction); oc is the build's overflow checks
push(self, insn, oc) ==
    IF self.loop_comment_depth # 0 THEN push_suppressed(self, insn)
    ELSE LET l == last(self) IN
    IF IsAddZero(insn) THEN self
    ELSE IF l.op = "AddValue" /\ insn.op = "AddValue"
        THEN MergeAddValue(self, l.v, insn.v, oc)
    ELSE IF l.op = "SetValue" /\ insn.op = "AddValue"
        THEN MergeSetAdd(self, l.v, insn.v, oc)
    ELSE IF OverridesValue(l, insn)
        THEN Reinsert(pop(self), insn, oc)
    ELSE IF l.op = "AddPointer" /\ insn.op = "AddPointer"
        THEN MergeAddPointer(self, l.v, insn.v, oc)
    ELSE IF l.op = "SetPointer" /\ insn.op = "AddPointer"
        THEN Reinsert(pop(self), SetPointer(l.v + insn.v), oc)
    ELSE IF OverridesPointer(l, insn)
        THEN Reinsert(pop(self), insn, oc)
    ELSE IF l.op = "AddValue" /\ insn = EndLoop
            /\ OddLoopGuard(self, l.v, oc) # "skip"
        THEN IF OddLoopGuard(self, l.v, oc) = "panic"
             THEN Panic(self)
             ELSE Reinsert(pop(pop(self)), SetValue(0), oc)
    ELSE IF l = EndLoop /\ insn.op = "AddValue"
        THEN PostLoopAdd(self, insn.v, oc)
    ELSE IF IsPostLoopZero(l, insn) THEN self
    ELSE IF EntersDeadLoop(l, insn)
        THEN [self EXCEPT !.loop_comment_depth = @ + 1]
    ELSE push_internal(self, insn)

\* the number of calls of push that one call push(insn) makes, itself
\* included: 1 for an arm that does not call self.push, one more than the
\* re-insertion's for an arm that does
RECURSIVE push_calls(_, _, _)
push_calls(self, insn, oc) ==
    IF self.loop_comment_depth # 0 THEN 1
    ELSE LET l == last(self) IN
    IF IsAddZero(insn) THEN 1
    ELSE IF l.op = "AddValue" /\ insn.op = "AddValue"
        THEN IF OverflowsI8(l.v, insn.v) /\ oc THEN 1
             ELSE 1 + push_calls(pop(self),
                                 AddValue(WrapI8(l.v + insn.v)), oc)
    ELSE IF l.op = "SetValue" /\ insn.op = "AddValue"
        THEN IF OverflowsI8(l.v, insn.v) /\ oc THEN 1
             ELSE 1 + push_calls(pop(self),
                                 SetValue(WrapI8(l.v + insn.v)), oc)
    ELSE IF OverridesValue(l, insn)
        THEN 1 + push_calls(pop(self), insn, oc)
    ELSE IF l.op = "AddPointer" /\ insn.op = "AddPointer"
        THEN 1 + push_calls(pop(self), AddPointer(l.v + insn.v), oc)
    ELSE IF l.op = "SetPointer" /\ insn.op = "AddPointer"
        THEN 1 + push_calls(pop(self), SetPointer(l.v + insn.v), oc)
    ELSE IF OverridesPointer(l, insn)
        THEN 1 + push_calls(pop(self), insn, oc)
    ELSE IF l.op = "AddValue" /\ insn = EndLoop
            /\ OddLoopGuard(self, l.v, oc) # "skip"
        THEN IF OddLoopGuard(self, l.v, oc) = "panic" THEN 1
             ELSE 1 + push_calls(pop(pop(self)), SetValue(0), oc)
    ELSE IF l = EndLoop /\ insn.op = "AddValue"
        THEN 1 + push_calls(self, SetValue(insn.v), oc)
    ELSE 1

\* pub fn optimize(input): new(), push every instruction in order; the
\* result carries status "panicked" when a push panicked (later instructions
\* are then never pushed)
RECURSIVE optimize_from(_, _, _)
optimize_from(self, rest, oc) ==
    IF rest = <<>> \/ self.status # "ok" THEN self
    ELSE optimize_from(push(self, Head(rest), oc), Tail(rest), oc)

optimize(in, oc) == optimize_from(new, in, oc)

\* the match of parse_bf: Some(instruction) for the eight command characters,
\* None for every other character
\* (variant: the arms of '<' and '>' are exchanged)
parse_bf_matchSwapped(c) ==
    CASE c = "-" -> AddValue(-1)
      [] c = "+" -> AddValue(1)
      [] c = "<" -> AddPointer(1)
      [] c = ">" -> AddPointer(-1)
      [] c = "," -> Input
      [] c = "." -> Output
      [] c = "[" -> BeginLoop
      [] c = "]" -> EndLoop
      [] OTHER   -> None
parse_bf_match(c) ==
    CASE c = "-" -> AddValue(-1)
      [] c = "+" -> AddValue(1)
      [] c = "<" -> AddPointer(-1)
      [] c = ">" -> AddPointer(1)
      [] c = "," -> Input
      [] c = "." -> Output
      [] c = "[" -> BeginLoop
      [] c = "]" -> EndLoop
      [] OTHER   -> None

\* pub fn parse_bf(chars): new(), then for every character the match and,
\* if let Some(insn), result.push(insn)
RECURSIVE parse_bf_from(_, _, _)
parse_bf_from(self, chars, oc) ==
    IF chars = <<>> \/ self.status # "ok" THEN self
    ELSE LET insn == parse_bf_match(Head(chars))
         IN parse_bf_from(IF insn = None THEN self ELSE push(self, insn, oc),
                          Tail(chars), oc)

parse_bf(chars, oc) == parse_bf_from(new, chars, oc)

----------------------------------------------------------------------------
(* The state machine: one optimizer run, instructions arriving one by one *)

\* the InstructionList of the current state
current == [list |-> list, loop_comment_depth |-> loop_comment_depth,
            status |-> status]

\* instruction payloads pushed in the general specification
Values == {I8Min, -1, 0, 1, 2, 3, I8Max}
Pointers == (-MaxPtr)..MaxPtr \ {0}

Alphabet ==
    {SetValue(v) : v \in Values} \cup {AddValue(v) : v \in Values}
    \cup {AddPointer(p) : p \in Pointers} \cup {SetPointer(p) : p \in Pointers}
    \cup {Input, Output, BeginLoop, EndLoop}

\* instructions pushed in the loop specification
LoopAlphabet ==
    {SetValue(0), SetValue(1), AddValue(1), Output, BeginLoop, EndLoop}

\* no BfMachine is compiled in the specifications of the optimizer
NoCompile == machine = <<>> /\ gen = <<>> /\ run = <<>>

Init ==
    /\ list = <<>>
    /\ loop_comment_depth = 0
    /\ status = "ok"
    /\ overflow_checks \in BOOLEAN
    /\ input = <<>>
    /\ source = <<>>
    /\ NoCompile

\* one iteration of `for insn in input { result.push(insn); }`
Push(insn) ==
    /\ status = "ok"
    /\ LET r == push(current, insn, overflow_checks) IN
        /\ list' = r.list
        /\ loop_comment_depth' = r.loop_comment_depth
        /\ status' = r.status
    /\ input' = Append(input, insn)
    /\ UNCHANGED <<overflow_checks, source, machine, gen, run>>

Next == \E insn \in Alphabet : Len(input) < MaxPush /\ Push(insn)

Spec == Init /\ [][Next]_vars

\* two value instructions with payloads over the whole of i8
PushSetValue == \E v \in I8 : Len(input) < 2 /\ Push(SetValue(v))
PushAddValue == \E v \in I8 : Len(input) < 2 /\ Push(AddValue(v))
NextPair == PushSetValue \/ PushAddValue

PairSpec == Init /\ [][NextPair]_vars

\* longer runs over loop delimiters and a few value instructions
NextLoop == \E insn \in LoopAlphabet : Len(input) < MaxLoopPush /\ Push(insn)

LoopSpec == Init /\ [][NextLoop]_vars

\* two pointer moves with payloads beyond the range of a cell
PushAddPointer ==
    \E p \in (-MaxPairPtr)..MaxPairPtr : Len(input) < 2 /\ Push(AddPointer(p))

PtrSpec == Init /\ [][PushAddPointer]_vars

\* the characters of a source text: the eight commands and two others
Chars == {"-", "+", "<", ">", ",", ".", "[", "]", " ", "x"}

\* one iteration of `for c in chars.fuse()` of parse_bf
ParseChar(c) ==
    /\ status = "ok"
    /\ source' = Append(source, c)
    /\ LET insn == parse_bf_match(c) IN
         IF insn = None
         THEN UNCHANGED <<list, loop_comment_depth, status, input>>
         ELSE LET r == push(current, insn, overflow_checks) IN
                /\ list' = r.list
                /\ loop_comment_depth' = r.loop_comment_depth
                /\ status' = r.status
                /\ input' = Append(input, insn)
    /\ UNCHANGED <<overflow_checks, machine, gen, run>>

NextParse == \E c \in Chars : Len(source) < MaxSource /\ ParseChar(c)

ParseSpec == Init /\ [][NextParse]_vars

----------------------------------------------------------------------------
(* The code generator: fn compile of src/src/main.rs and of                  *)
(* src/src/compiler.rs.  The two files hold two revisions of the same        *)
(* function; machine.revision says which one runs ("main" or "compiler").    *)
(* The generated function is kept as the list of its basic blocks, each the  *)
(* list of the LLVM instructions the builder appended to it.                 *)

\* BfInstruction::DebugLog, lowered by the compiler.rs revision only
DebugLog      == [op |-> "DebugLog",   v |-> 0]

\* An AddPointer whose i64 payload is hi * 2^32 + lo, lo a signed 32-bit
\* number; AddPointer(v) is the case hi = 0.
AddPointerWide(hi, lo) == [op |-> "AddPointer", v |-> lo, hi |-> hi]

\* a 64-bit number hi * 2^32 + lo with lo a signed 32-bit number
Wide(hi, lo) == [hi |-> hi, lo |-> lo]

\* the i64 payload of an AddPointer
payload(insn) == Wide(IF "hi" \in DOMAIN insn THEN insn.hi ELSE 0, insn.v)

\* LLVMConstInt(i32, n, _): the constant keeps the low 32 bits of n
ConstInt32(n) == n.lo

\* one LLVM instruction (or a load / operation / store group of the builder)
\* with up to two operands: constants or basic blocks (an add_idx carries as
\* b the position of the AddPointer it was lowered from, for reference)
Op(k, a, b) == [k |-> k, a |-> a, b |-> b]

\* instructions that end a basic block
Terminators == {"br", "cond_br", "ret_val", "ret_const"}

\* function.append_basic_block(name): the new block is the last of blocks
append_basic_block(g, name) ==
    [g EXCEPT !.blocks = Append(@, <<>>), !.names = Append(@, name)]

\* the builder appends instructions at the end of the block it was made for
build(g, block, ops) == [g EXCEPT !.blocks[block] = @ \o ops]

\* compile up to `// NOTE(jpg): emit instructions`: entry block, malloc,
\* zeroing of the array (memset in compiler.rs), index_var, ptr_var, and the
\* locals abort_bb, loop_abort_depth, loop_stack
entry(m) ==
    [phase |-> "lowering", i |-> 0, bb |-> 1,
     blocks |-> << <<Op("call_malloc", ConstInt32(m.cache_size), 0)>>
                   \o (IF m.revision = "compiler"
                       THEN <<Op("call_memset", ConstInt32(m.cache_size), 0)>>
                       ELSE <<>>)
                   \o <<Op("alloca_index_var", 0, 0),
                        Op("load_index", 0, 0),
                        Op("alloca_ptr_var", 0, 0)>> >>,
     names |-> <<"entry">>,
     cache_size |-> ConstInt32(m.cache_size),
     abort_bb |-> 0, loop_abort_depth |-> 0, loop_stack |-> <<>>,
     debug_log |-> (m.revision = "main" /\ m.emit_debug_log),
     \* the position of the first lowered instruction, set by prologue
     start |-> <<0, 0>>]

\* main.rs: the block clear-loop-cond,
\*     entry: if i != cache_size { goto body; } else { goto exit; }
\* (variant: the branch targets are exchanged)
clear_loop_condSwapped(g, before_bb, body_bb, exit_bb) ==
    <<Op("phi_i", before_bb, 0), Op("icmp_ne_i", g.cache_size, 0),
      Op("cond_br", exit_bb, body_bb)>>
clear_loop_cond(g, before_bb, body_bb, exit_bb) ==
    <<Op("phi_i", before_bb, 0), Op("icmp_ne_i", g.cache_size, 0),
      Op("cond_br", body_bb, exit_bb)>>

\* main.rs `// NOTE(jpg): clear memory`: the zero-fill loop
clear_memory(g) ==
    LET before_bb == g.bb
        entry_bb == Len(g.blocks) + 1
        body_bb == Len(g.blocks) + 2
        exit_bb == Len(g.blocks) + 3
        g1 == append_basic_block(append_basic_block(append_basic_block(g,
                  "clear-loop-cond"), "clear-loop-body"), "bf-begin")
        g2 == build(g1, before_bb, <<Op("br", entry_bb, 0)>>)
        g3 == build(g2, entry_bb,
                    clear_loop_cond(g, before_bb, body_bb, exit_bb))
        g4 == build(g3, body_bb, <<Op("store_zero_at_i", 0, 0),
                                   Op("add_i", 1, 0),
                                   Op("br", entry_bb, 0)>>)
    IN [g4 EXCEPT !.bb = exit_bb]

\* the generator before the first instruction is lowered
prologue(m) ==
    LET g == IF m.revision = "main" THEN clear_memory(entry(m)) ELSE entry(m)
    IN [g EXCEPT !.start = <<g.bb, Len(g.blocks[g.bb]) + 1>>]

\* the instructions of the current block are appended by `builder`
emit(g, ops) == build(g, g.bb, ops)

\* main.rs: if machine.emit_debug_log { ... call_void(debug_log, ..) } before
\* the match
debug_before(g, m) ==
    IF m.revision = "main" /\ m.emit_debug_log
    THEN emit(g, <<Op("load_index", 0, 0), Op("call_debug_log", g.i, 0)>>)
    ELSE g

\* BfInstruction::SetValue(value)
lower_SetValue(g, value) == emit(g, <<Op("store_cell", value, 0)>>)

\* BfInstruction::AddValue(value)
lower_AddValue(g, value) ==
    emit(g, <<Op("load_cell", 0, 0), Op("add_val", value, 0),
              Op("store_val", 0, 0)>>)

\* the Abort arm of `match machine.memory_overflow`: the range check, the
\* branch, and the move of the builder to check_success; abort_bb is created
\* by the first check only
\* (variant: every check creates a check_abort block of its own)
check_abortFresh(g, load) ==
    LET success_bb == Len(g.blocks) + 1
        g1 == append_basic_block(g, "check_success")
        g2 == [append_basic_block(g1, "check_abort")
                  EXCEPT !.abort_bb = Len(g1.blocks) + 1]
        g3 == emit(g2, load \o <<Op("icmp_ult_idx", g.cache_size, 0),
                                 Op("cond_br", success_bb, g2.abort_bb)>>)
    IN [g3 EXCEPT !.bb = success_bb]
\* (variant: the branch targets are exchanged)
check_abortSwapped(g, load) ==
    LET success_bb == Len(g.blocks) + 1
        g1 == append_basic_block(g, "check_success")
        g2 == IF g1.abort_bb = 0
              THEN [append_basic_block(g1, "check_abort")
                       EXCEPT !.abort_bb = Len(g1.blocks) + 1]
              ELSE g1
        g3 == emit(g2, load \o <<Op("icmp_ult_idx", g.cache_size, 0),
                                 Op("cond_br", g2.abort_bb, success_bb)>>)
    IN [g3 EXCEPT !.bb = success_bb]
check_abort(g, load) ==
    LET success_bb == Len(g.blocks) + 1
        g1 == append_basic_block(g, "check_success")
        g2 == IF g1.abort_bb = 0
              THEN [append_basic_block(g1, "check_abort")
                       EXCEPT !.abort_bb = Len(g1.blocks) + 1]
              ELSE g1
        g3 == emit(g2, load \o <<Op("icmp_ult_idx", g.cache_size, 0),
                                 Op("cond_br", success_bb, g2.abort_bb)>>)
    IN [g3 EXCEPT !.bb = success_bb]

\* BfInstruction::AddPointer(value), main.rs: the new index is the SSA value
\* idx; index_var and ptr_var are stored after the overflow policy
lower_AddPointer_main(g, m, insn) ==
    LET g1 == emit(g, <<Op("load_index", 0, 0),
                        Op("add_idx", ConstInt32(payload(insn)), g.i + 1)>>)
        g2 == IF m.emit_debug_log
              THEN emit(g1, <<Op("call_debug_log", g.i, 0)>>)
              ELSE g1
        g3 == CASE m.memory_overflow = "Undefined" -> g2
                [] m.memory_overflow = "Wrap" ->
                     emit(g2, <<Op("urem_idx", g.cache_size, 0)>>)
                [] m.memory_overflow = "Abort" -> check_abort(g2, <<>>)
    IN emit(g3, <<Op("store_index", 0, 0), Op("gep_store_ptr", 0, 0)>>)

\* BfInstruction::AddPointer(value), compiler.rs: every operation loads
\* index_var and the add and the urem store their result into it
lower_AddPointer_compiler(g, m, insn) ==
    LET g1 == emit(g, <<Op("load_index", 0, 0),
                        Op("add_idx", ConstInt32(payload(insn)), g.i + 1),
                        Op("store_index", 0, 0)>>)
        g2 == CASE m.memory_overflow = "Undefined" -> g1
                [] m.memory_overflow = "Wrap" ->
                     emit(g1, <<Op("load_index", 0, 0),
                                Op("urem_idx", g.cache_size, 0),
                                Op("store_index", 0, 0)>>)
                [] m.memory_overflow = "Abort" ->
                     check_abort(g1, <<Op("load_index", 0, 0)>>)
    IN emit(g2, <<Op("load_index", 0, 0), Op("gep_store_ptr", 0, 0)>>)

\* BfInstruction::Input
lower_Input(g) == emit(g, <<Op("call_getchar", 0, 0), Op("store_val", 0, 0)>>)

\* BfInstruction::Output
\* (variant: putchar is called before the cell is loaded)
lower_OutputStale(g) ==
    emit(g, <<Op("call_putchar", 0, 0), Op("load_cell", 0, 0)>>)
lower_Output(g) == emit(g, <<Op("load_cell", 0, 0), Op("call_putchar", 0, 0)>>)

\* BfInstruction::BeginLoop
\* (variant: the targets of the header's branch are exchanged)
lower_BeginLoopSwapped(g) ==
    LET loop_header_bb == Len(g.blocks) + 1
        loop_body_bb == Len(g.blocks) + 2
        loop_footer_bb == Len(g.blocks) + 3
        g1 == append_basic_block(append_basic_block(append_basic_block(g,
                  "loop-header"), "loop-body"), "loop-footer")
        g2 == emit(g1, <<Op("br", loop_header_bb, 0)>>)
        g3 == build(g2, loop_header_bb,
                    <<Op("load_cell", 0, 0), Op("icmp_eq_zero", 0, 0),
                      Op("cond_br", loop_body_bb, loop_footer_bb)>>)
    IN [g3 EXCEPT !.bb = loop_body_bb,
                  !.loop_stack = Append(@, [loop_header_bb |-> loop_header_bb,
                                            loop_footer_bb |-> loop_footer_bb])]
lower_BeginLoop(g) ==
    LET loop_header_bb == Len(g.blocks) + 1
        loop_body_bb == Len(g.blocks) + 2
        loop_footer_bb == Len(g.blocks) + 3
        g1 == append_basic_block(append_basic_block(append_basic_block(g,
                  "loop-header"), "loop-body"), "loop-footer")
        g2 == emit(g1, <<Op("br", loop_header_bb, 0)>>)
        g3 == build(g2, loop_header_bb,
                    <<Op("load_cell", 0, 0), Op("icmp_eq_zero", 0, 0),
                      Op("cond_br", loop_footer_bb, loop_body_bb)>>)
    IN [g3 EXCEPT !.bb = loop_body_bb,
                  !.loop_stack = Append(@, [loop_header_bb |-> loop_header_bb,
                                            loop_footer_bb |-> loop_footer_bb])]

\* BfInstruction::EndLoop: loop_stack.pop().expect(..) panics on an empty
\* stack
\* (variant: the oldest context is taken in place of the newest)
lower_EndLoopFifo(g) ==
    IF g.loop_stack = <<>> THEN [g EXCEPT !.phase = "panicked"]
    ELSE LET context == g.loop_stack[1]
             g1 == emit(g, <<Op("br", context.loop_header_bb, 0)>>)
         IN [g1 EXCEPT !.bb = context.loop_footer_bb,
                       !.loop_stack = SubSeq(@, 2, Len(@))]
\* (variant: an empty stack is ignored)
lower_EndLoopLenient(g) ==
    IF g.loop_stack = <<>> THEN g
    ELSE LET context == g.loop_stack[Len(g.loop_stack)]
             g1 == emit(g, <<Op("br", context.loop_header_bb, 0)>>)
         IN [g1 EXCEPT !.bb = context.loop_footer_bb,
                       !.loop_stack = SubSeq(@, 1, Len(@) - 1)]
lower_EndLoop(g) ==
    IF g.loop_stack = <<>> THEN [g EXCEPT !.phase = "panicked"]
    ELSE LET context == g.loop_stack[Len(g.loop_stack)]
             g1 == emit(g, <<Op("br", context.loop_header_bb, 0)>>)
         IN [g1 EXCEPT !.bb = context.loop_footer_bb,
                       !.loop_stack = SubSeq(@, 1, Len(@) - 1)]

\* BfInstruction::DebugLog (compiler.rs)
lower_DebugLog(g) ==
    emit([g EXCEPT !.debug_log = TRUE],
         <<Op("load_index", 0, 0), Op("call_debug_log", g.i, 0)>>)

\* the head of the for loop: with loop_abort_depth # 0 the instruction only
\* adjusts the depth
skip_depth(g, insn) ==
    IF g.loop_abort_depth = 0 THEN 0
    ELSE IF insn = BeginLoop THEN g.loop_abort_depth + 1
    ELSE IF insn = EndLoop THEN g.loop_abort_depth - 1
    ELSE g.loop_abort_depth

\* one iteration of `for (i, insn) in machine.instructions.iter().enumerate()`
lower(g, m, insn) ==
    LET g0 == [g EXCEPT !.loop_abort_depth = skip_depth(g, insn)]
        g1 == debug_before(g0, m)
        g2 == CASE insn.op = "SetValue" -> lower_SetValue(g1, insn.v)
                [] insn.op = "AddValue" -> lower_AddValue(g1, insn.v)
                [] insn.op = "AddPointer" ->
                     IF m.revision = "main"
                     THEN lower_AddPointer_main(g1, m, insn)
                     ELSE lower_AddPointer_compiler(g1, m, insn)
                [] insn.op = "Input" -> lower_Input(g1)
                [] insn.op = "Output" -> lower_Output(g1)
                [] insn.op = "BeginLoop" -> lower_BeginLoop(g1)
                [] insn.op = "EndLoop" -> lower_EndLoop(g1)
                [] insn.op = "DebugLog" -> lower_DebugLog(g1)
    IN IF g0.loop_abort_depth # 0
       THEN [g0 EXCEPT !.i = @ + 1]
       ELSE [g2 EXCEPT !.i = @ + 1]

\* `if allow_write!() { .. }` after the loop: the normal exit.  main.rs loads
\* the current cell, frees the array and returns the value; compiler.rs
\* frees the array, then loads the cell, widens it to i32 and returns it
success(g, m) ==
    IF g.loop_abort_depth # 0 THEN g
    ELSE IF m.revision = "main"
    THEN emit(g, <<Op("load_cell", 0, 0), Op("call_free", 0, 0),
                   Op("ret_val", 0, 0)>>)
    ELSE emit(g, <<Op("call_free", 0, 0), Op("load_cell", 0, 0),
                   Op("sext_val", 0, 0), Op("ret_val", 0, 0)>>)

\* `if let Some(bb) = abort_bb { .. }`: free the array and return -1
\* (variant: check_abort is left without instructions)
abortMissing(g) == g
abort(g) ==
    IF g.abort_bb = 0 THEN g
    ELSE build(g, g.abort_bb, <<Op("call_free", 0, 0), Op("ret_const", -1, 0)>>)

\* compile after the for loop (the body of debug_log and the optional main
\* are other functions of the module and add no block to this one)
epilogue(g, m) == [abort(success(g, m)) EXCEPT !.phase = "done"]

\* fn compile(machine): the generator after the whole of the instructions,
\* or the generator at the panic
RECURSIVE compile_from(_, _)
compile_from(g, m) ==
    IF g.phase # "lowering" THEN g
    ELSE IF g.i = Len(m.instructions) THEN epilogue(g, m)
    ELSE compile_from(lower(g, m, m.instructions[g.i + 1]), m)

compile(m) == compile_from(prologue(m), m)

----------------------------------------------------------------------------
(* The state machine of one call of compile *)

\* the sequences over S of length at most n
SeqsUpTo(S, n) == UNION {[1..k -> S] : k \in 0..n}

Revisions == {"main", "compiler"}

\* enum MemoryOverflowBehaviour
MemoryOverflowBehaviours == {"Undefined", "Wrap", "Abort"}

\* the instructions of the machines that are compiled
CodeAlphabet ==
    {AddValue(-1), AddPointer(1), AddPointer(-1), Output, BeginLoop, EndLoop}

\* struct BfMachine, and the revision of compile it is given to; the
\* emit_debug_log flag is read by main.rs only
BfMachine(revision, cache_size, instructions, memory_overflow, emit_debug_log) ==
    [revision |-> revision, cache_size |-> cache_size,
     instructions |-> instructions, memory_overflow |-> memory_overflow,
     emit_debug_log |-> emit_debug_log]

\* machines without debug logging
PlainMachines ==
    {BfMachine(r, Wide(0, c), p, o, FALSE) :
        r \in Revisions, c \in 0..MaxCache,
        p \in SeqsUpTo(CodeAlphabet, MaxInsns),
        o \in MemoryOverflowBehaviours}

\* machines with debug logging: the flag for main.rs, DebugLog instructions
\* in the list for compiler.rs
DebugAlphabet == {AddPointer(1), BeginLoop, EndLoop}

DebugMachines ==
    {BfMachine("main", Wide(0, 1), p, o, TRUE) :
        p \in SeqsUpTo(DebugAlphabet, MaxDebugInsns),
        o \in MemoryOverflowBehaviours}
    \cup
    {BfMachine("compiler", Wide(0, 1), p, o, FALSE) :
        p \in SeqsUpTo(DebugAlphabet \cup {DebugLog}, MaxDebugInsns),
        o \in MemoryOverflowBehaviours}

Machines == PlainMachines \cup DebugMachines

\* the optimizer is not running while a machine is compiled (no arithmetic of
\* compile can overflow, so the build profile is fixed)
NoOptimize ==
    /\ list = <<>> /\ loop_comment_depth = 0 /\ status = "ok"
    /\ overflow_checks = TRUE /\ input = <<>> /\ source = <<>>

InitCompile ==
    /\ NoOptimize
    /\ machine \in Machines
    /\ gen = prologue(machine)
    /\ run = <<>>

\* one iteration of the for loop of compile
Lower ==
    /\ gen.phase = "lowering"
    /\ gen.i < Len(machine.instructions)
    /\ gen' = lower(gen, machine, machine.instructions[gen.i + 1])
    /\ UNCHANGED <<list, loop_comment_depth, status, overflow_checks, input,
                   source, machine, run>>

\* the code of compile after the for loop
Finish ==
    /\ gen.phase = "lowering"
    /\ gen.i = Len(machine.instructions)
    /\ gen' = epilogue(gen, machine)
    /\ UNCHANGED <<list, loop_comment_depth, status, overflow_checks, input,
                   source, machine, run>>

NextCompile == Lower \/ Finish

CompileSpec == InitCompile /\ [][NextCompile]_vars

----------------------------------------------------------------------------
(* The generated function: the meaning of its instructions.  A state of a   *)
(* call is a record: the position (bb, ip), the heap buffer `array` as the  *)
(* list of its cells, the two stack slots index_var and ptr_var (ptr_var as *)
(* the offset of the pointer from the start of the array), the SSA values   *)
(* idx, val, i, cmp, the bytes written, and the result.                     *)

\* LLVM add on i32: two's complement wrap (written without leaving 32 bits)
Add32(x, y) ==
    IF y > 0 /\ x > I32Max - y THEN (x - I32Max - 1) + (y - I32Max - 1)
    ELSE IF y < 0 /\ x < I32Min - y THEN (x + I32Max + 1) + (y + I32Max + 1)
    ELSE x + y

\* LLVM icmp ult on i32: a negative signed reading is a value of 2^31 or more
\* (variant: the signed comparison icmp slt)
SLT32(x, y) == x < y
ULT32(x, y) ==
    IF (x >= 0) = (y >= 0) THEN x < y ELSE x >= 0

\* 2^32 mod c for 0 < c < 2^15
TwoPow32Mod(c) == ((65536 % c) * (65536 % c)) % c

\* LLVM urem on i32 for a divisor c # 0
\* (variant: the signed remainder srem, with the sign of the dividend)
SRem32(x, c) == IF x >= 0 THEN x % c ELSE -((-x) % c)
URem32(x, c) ==
    IF c > 0
    THEN IF x >= 0 THEN x % c ELSE ((x % c) + TwoPow32Mod(c)) % c
    ELSE IF ULT32(x, c) THEN x ELSE x - c

\* bytes that are not determined by the program: input, uninitialized and
\* freed memory
Bytes == {0, 1, -1}

\* the state at the call of the generated function
call ==
    [status |-> "running", bb |-> 1, ip |-> 1, prev_bb |-> 0,
     heap |-> "none", array |-> <<>>,
     index_var |-> 0, ptr_var |-> 0,
     idx |-> 0, val |-> 0, i |-> 0, i_next |-> 0, cmp |-> FALSE,
     stdout |-> <<>>, result |-> 0, exit |-> "none",
     \* history, not part of the program's state: was there undefined
     \* behaviour, executions of the zero-fill body, the last pointer move
     \* (its AddPointer, the index before it, the sum, the index after the
     \* overflow policy, is it stored in ptr_var), has a
     \* range check failed and what was executed since
     ub |-> FALSE, iterations |-> 0,
     move |-> [insn |-> 0, before |-> 0, sum |-> 0, after |-> 0, done |-> FALSE],
     overflowed |-> FALSE, after_overflow |-> <<>>]

\* the current cell can be read and written: the array is live and ptr_var
\* points into it
in_array(r, offset) ==
    r.heap = "live" /\ offset >= 0 /\ offset < Len(r.array)

\* an access outside the array or before malloc: undefined behaviour, after
\* which nothing is known of the call (it is not followed further)
undefined(r) == [r EXCEPT !.status = "undefined", !.ub = TRUE]

\* a load through ptr_var; a load from the freed array yields a value that
\* is not determined (byte)
load_cell(r, byte) ==
    IF in_array(r, r.ptr_var)
    THEN [r EXCEPT !.val = r.array[r.ptr_var + 1]]
    ELSE IF r.heap = "freed" /\ r.ptr_var >= 0 /\ r.ptr_var < Len(r.array)
    THEN [r EXCEPT !.val = byte, !.ub = TRUE]
    ELSE undefined(r)

\* a store at an offset of the array
store_at(r, offset, value) ==
    IF in_array(r, offset)
    THEN [r EXCEPT !.array[offset + 1] = value]
    ELSE undefined(r)

\* a branch to block b
goto(r, b) == [r EXCEPT !.prev_bb = r.bb, !.bb = b, !.ip = 0]
\* (ip = 0: the position advances to 1 at the end of the step)

\* the effect of one instruction; byte is the undetermined byte it may read,
\* garbage the content of fresh memory
exec(r, op, byte, garbage) ==
    CASE op.k = "call_malloc" ->
           IF op.a < 0 THEN undefined(r)
           ELSE [r EXCEPT !.heap = "live",
                          !.array = [j \in 1..op.a |-> garbage[j]]]
      [] op.k = "call_memset" ->
           [r EXCEPT !.array = [j \in 1..Len(@) |-> IF j <= op.a THEN 0 ELSE @[j]]]
      [] op.k = "alloca_index_var" -> [r EXCEPT !.index_var = 0]
      [] op.k = "alloca_ptr_var" -> [r EXCEPT !.ptr_var = r.idx]
      [] op.k = "phi_i" ->
           [r EXCEPT !.i = IF r.prev_bb = op.a THEN op.b ELSE r.i_next]
      [] op.k = "icmp_ne_i" -> [r EXCEPT !.cmp = (r.i # op.a)]
      [] op.k = "store_zero_at_i" ->
           [store_at(r, r.i, 0) EXCEPT !.iterations = @ + 1]
      [] op.k = "add_i" -> [r EXCEPT !.i_next = Add32(r.i, op.a)]
      [] op.k = "br" -> goto(r, op.a)
      [] op.k = "cond_br" -> goto(r, IF r.cmp THEN op.a ELSE op.b)
      [] op.k = "store_cell" -> store_at(r, r.ptr_var, op.a)
      [] op.k = "load_cell" -> load_cell(r, byte)
      [] op.k = "icmp_eq_zero" -> [r EXCEPT !.cmp = (r.val = 0)]
      [] op.k = "add_val" -> [r EXCEPT !.val = WrapI8(@ + op.a)]
      [] op.k = "store_val" -> store_at(r, r.ptr_var, r.val)
      [] op.k = "load_index" -> [r EXCEPT !.idx = r.index_var]
      [] op.k = "add_idx" ->
           [r EXCEPT !.idx = Add32(@, op.a),
                     !.move = [insn |-> op.b, before |-> r.idx,
                               sum |-> Add32(r.idx, op.a),
                               after |-> Add32(r.idx, op.a), done |-> FALSE]]
      [] op.k = "urem_idx" ->
           IF op.a = 0 THEN undefined(r)
           ELSE [r EXCEPT !.idx = URem32(@, op.a)]
      [] op.k = "icmp_ult_idx" ->
           [r EXCEPT !.cmp = ULT32(r.idx, op.a),
                     !.overflowed = ~ULT32(r.idx, op.a)]
      [] op.k = "store_index" -> [r EXCEPT !.index_var = r.idx]
      [] op.k = "gep_store_ptr" ->
           [r EXCEPT !.ptr_var = r.idx,
                     !.move.after = r.idx, !.move.done = TRUE]
      [] op.k = "call_getchar" -> [r EXCEPT !.val = byte]
      [] op.k = "call_putchar" -> [r EXCEPT !.stdout = Append(@, r.val)]
      [] op.k = "call_debug_log" -> r
      [] op.k = "call_free" ->
           IF r.heap = "live" THEN [r EXCEPT !.heap = "freed"]
           ELSE undefined(r)
      [] op.k = "sext_val" -> r
      [] op.k = "ret_val" ->
           [r EXCEPT !.status = "returned", !.result = r.val, !.exit = "success"]
      [] op.k = "ret_const" ->
           [r EXCEPT !.status = "returned", !.result = op.a, !.exit = "abort"]

\* the instruction at the position of the call
fetch(g, r) == g.blocks[r.bb][r.ip]

\* one instruction is executed and the position advances
step(g, r, byte, garbage) ==
    IF r.ip > Len(g.blocks[r.bb])
    THEN undefined(r)
    ELSE LET op == fetch(g, r)
             r1 == exec(r, op, byte, garbage)
             r2 == [r1 EXCEPT !.ip = @ + 1]
             r3 == IF r.overflowed
                   THEN [r2 EXCEPT !.after_overflow = Append(@, op.k)]
                   ELSE r2
         IN r3

----------------------------------------------------------------------------
(* The state machine of one call of the generated function *)

\* the instructions of the machines whose function is run
RunAlphabet ==
    {AddValue(-1), AddPointer(1), AddPointer(-1), AddPointer(2),
     Output, BeginLoop, EndLoop}

RunMachines ==
    {BfMachine(r, Wide(0, c), p, o, FALSE) :
        r \in Revisions, c \in 0..MaxCache,
        p \in SeqsUpTo(RunAlphabet, MaxRunInsns),
        o \in MemoryOverflowBehaviours}

\* the machine has been compiled and module.jit_function calls the function
InitRun ==
    /\ NoOptimize
    /\ machine \in RunMachines
    /\ gen = compile(machine)
    /\ gen.phase = "done"
    /\ run = call

\* content of freshly allocated memory
Uninit == {0, -1}

\* what a load can yield outside the live array: any byte, and what the cell
\* held when the array was freed
undetermined(r) ==
    Bytes \cup (IF r.heap = "freed" /\ r.ptr_var >= 0 /\ r.ptr_var < Len(r.array)
                THEN {r.array[r.ptr_var + 1]} ELSE {})

\* the generated function executes one instruction; a call that has written
\* max_output bytes is not followed past its next putchar
StepUpTo(max_output) ==
    /\ gen.phase = "done"
    /\ run.status = "running"
    /\ LET k == IF run.ip > Len(gen.blocks[run.bb]) THEN "none"
                ELSE fetch(gen, run).k
       IN /\ k = "call_putchar" => Len(run.stdout) < max_output
          /\ IF k = "call_malloc" /\ gen.cache_size > 0
             THEN \E garbage \in [1..gen.cache_size -> Uninit] :
                     run' = step(gen, run, 0, garbage)
             ELSE IF k = "call_getchar"
                     \/ (k = "load_cell" /\ ~in_array(run, run.ptr_var))
             THEN \E byte \in undetermined(run) :
                     run' = step(gen, run, byte, <<>>)
             ELSE run' = step(gen, run, 0, <<>>)
    /\ UNCHANGED <<list, loop_comment_depth, status, overflow_checks, input,
                   source, machine, gen>>

Step == StepUpTo(MaxOutput)

RunSpec == InitRun /\ [][Step]_vars

\* machines with the Abort policy, a tape of at least one cell and every
\* kind of cell access
AbortAlphabet ==
    {SetValue(1), AddValue(-1), Input, Output, AddPointer(1), AddPointer(-1),
     BeginLoop, EndLoop}

AbortMachines ==
    {BfMachine(r, Wide(0, c), p, "Abort", FALSE) :
        r \in Revisions, c \in 1..MaxCache,
        p \in SeqsUpTo(AbortAlphabet, MaxAbortInsns)}

InitAbort ==
    /\ NoOptimize
    /\ machine \in AbortMachines
    /\ gen = compile(machine)
    /\ gen.phase = "done"
    /\ run = call

AbortSpec == InitAbort /\ [][Step]_vars

\* main.rs: let hello_world = "..."
hello_world ==
    << "+", "+", "+", "+", "+", "+", "+", "+", "+", "+", "[", ">",
       "+", "+", "+", "+", "+", "+", "+", ">", "+", "+", "+", "+",
       "+", "+", "+", "+", "+", "+", ">", "+", "+", "+", ">", "+",
       "<", "<", "<", "<", "-", "]", ">", "+", "+", ".", ">", "+",
       ".", "+", "+", "+", "+", "+", "+", "+", ".", ".", "+", "+",
       "+", ".", ">", "+", "+", ".", "<", "<", "+", "+", "+", "+",
       "+", "+", "+", "+", "+", "+", "+", "+", "+", "+", "+", ".",
       ">", ".", "+", "+", "+", ".", "-", "-", "-", "-", "-", "-",
       ".", "-", "-", "-", "-", "-", "-", "-", "-", ".", ">", "+",
       ".", ">", "." >>

\* the instructions the match of parse_bf yields for the characters of chars
pushed(chars) ==
    LET f == SelectSeq(chars, LAMBDA c : parse_bf_match(c) # None)
    IN [j \in 1..Len(f) |-> parse_bf_match(f[j])]

\* fn main: the machine is built from parse_bf(hello_world.chars()) with the
\* Undefined policy and no debug log, compiled and run (the cache_size is a
\* bound of the model, main.rs has 64)
InitHello ==
    /\ overflow_checks \in BOOLEAN
    /\ source = hello_world
    /\ input = pushed(hello_world)
    /\ LET r == parse_bf(hello_world, overflow_checks) IN
         /\ list = r.list
         /\ loop_comment_depth = r.loop_comment_depth
         /\ status = r.status
    /\ status = "ok"
    /\ \E r \in Revisions :
         machine = BfMachine(r, Wide(0, HelloCache), list, "Undefined", FALSE)
    /\ gen = compile(machine)
    /\ gen.phase = "done"
    /\ run = call

StepHello == StepUpTo(MaxHelloOutput)

HelloSpec == InitHello /\ [][StepHello]_vars

\* machines whose cache_size and AddPointer payloads need more than 32 bits:
\* 2^32 and 2^32 + 2 cells, moves by 2^32 and by -2^32 + 1
WideAlphabet ==
    {AddPointer(1), AddPointerWide(1, 0), AddPointerWide(-1, 1), AddValue(-1)}

WideMachines ==
    {BfMachine(r, c, p, o, FALSE) :
        r \in Revisions, c \in {Wide(0, 2), Wide(1, 0), Wide(1, 2)},
        p \in SeqsUpTo(WideAlphabet, MaxWideInsns),
        o \in MemoryOverflowBehaviours}

InitWide ==
    /\ NoOptimize
    /\ machine \in WideMachines
    /\ gen = compile(machine)
    /\ gen.phase = "done"
    /\ run = call

WideSpec == InitWide /\ [][Step]_vars

----------------------------------------------------------------------------
(* Notions used to state the properties *)

\* the optimizer after the first k pushed instructions
After(k) == optimize(SubSeq(input, 1, k), overflow_checks)

\* the instruction handed to the most recent push
Pushed == input[Len(input)]

\* v is odd, as a mathematical integer
Odd(v) == v % 2 = 1

\* x, y is the left-hand side of a two-instruction rewrite rule
IsPairRedex(x, y) ==
    \/ x.op = "AddValue" /\ y.op = "AddValue"
    \/ x.op = "SetValue" /\ y.op = "AddValue"
    \/ x.op \in {"SetValue", "AddValue"} /\ y.op = "SetValue"
    \/ x.op = "AddPointer" /\ y.op = "AddPointer"
    \/ x = EndLoop /\ y.op = "AddValue"
    \/ x = EndLoop /\ y = SetValue(0)
    \/ x \in {SetValue(0), EndLoop} /\ y = BeginLoop

\* x, y, z is a loop whose whole body is one odd AddValue
IsOddLoop(x, y, z) ==
    x = BeginLoop /\ y.op = "AddValue" /\ Odd(y.v) /\ z = EndLoop

\* BeginLoop count minus EndLoop count of s[i..j]
RECURSIVE Nesting(_, _, _)
Nesting(s, i, j) ==
    IF j < i THEN 0
    ELSE Nesting(s, i, j - 1)
         + (IF s[j] = BeginLoop THEN 1 ELSE IF s[j] = EndLoop THEN -1 ELSE 0)

\* position of the EndLoop that closes the BeginLoop at s[i]; 0 if it is never
\* closed
MatchingEnd(s, i) ==
    LET closers == {j \in (i + 1)..Len(s) : Nesting(s, i, j) = 0}
    IN IF closers = {} THEN 0
       ELSE CHOOSE j \in closers : \A k \in closers : j <= k

----------------------------------------------------------------------------
(* C1: after any sequence of pushes the emitted list holds no adjacent pair
   that is the left-hand side of a rewrite rule (AddValue AddValue, SetValue
   AddValue, SetValue|AddValue SetValue, AddPointer AddPointer, EndLoop
   AddValue, EndLoop SetValue(0), SetValue(0)|EndLoop BeginLoop) and no
   triple BeginLoop, AddValue(odd), EndLoop. *)
C1_NoRedexInList ==
    /\ \A i \in 1..(Len(list) - 1) : ~IsPairRedex(list[i], list[i + 1])
    /\ \A i \in 1..(Len(list) - 2) : ~IsOddLoop(list[i], list[i + 1], list[i + 2])

\* a rule has fired and the list still holds adjacent entries
C1_Witness ==
    /\ status = "ok" /\ loop_comment_depth = 0
    /\ Len(input) = 3 /\ Len(list) = 2

(* C2: push is total: whatever the reachable state and the incoming
   instruction, it completes without a failure and leaves a list and a
   non-negative depth. *)
C2_PushNeverFails ==
    status = "ok" /\ loop_comment_depth >= 0

(* C3: optimize is idempotent: whenever optimize returns a list, optimizing
   that list again returns it unchanged; and a single instruction other than
   AddValue(0) is returned unchanged. *)
C3_Idempotent ==
    /\ status = "ok" =>
          LET again == optimize(list, overflow_checks)
          IN again.status = "ok" /\ again.list = list
    /\ (Len(input) = 1 /\ input[1] # AddValue(0)) =>
          (status = "ok" /\ list = input)

\* a result that rewriting has changed and that is re-optimized entry by entry
C3_Witness ==
    /\ status = "ok"
    /\ input = <<AddValue(3), AddValue(-1), BeginLoop>>
    /\ list = <<AddValue(2), BeginLoop>>

(* C4: a BeginLoop pushed at depth 0 after SetValue(0) or EndLoop is
   discarded with its whole body (nested loops included) and its matching
   EndLoop: the list stays what it was before the BeginLoop, the optimizer is
   back in its normal state after the matching EndLoop, and the next
   instruction is processed by the normal rules. *)
C4_DeadLoopElided ==
    /\ \A i \in 1..Len(input) :
         LET before == After(i - 1)
             m == MatchingEnd(input, i)
         IN (/\ input[i] = BeginLoop
             /\ before.status = "ok"
             /\ before.loop_comment_depth = 0
             /\ last(before) \in {SetValue(0), EndLoop})
            =>
            /\ \A j \in i..Len(input) :
                 (m = 0 \/ j < m) =>
                    /\ After(j).status = "ok"
                    /\ After(j).list = before.list
                    /\ After(j).loop_comment_depth > 0
            /\ m # 0 => After(m) = before
            /\ (m # 0 /\ m < Len(input)) =>
                 After(m + 1) = push(before, input[m + 1], overflow_checks)
            /\ (m # 0 /\ m < Len(input) /\ input[m + 1] = Output) =>
                 After(m + 1).list = Append(before.list, Output)
    /\ input = <<SetValue(0), BeginLoop, AddValue(1), EndLoop>> =>
         (status = "ok" /\ list = <<SetValue(0)>>)
    /\ input = <<EndLoop, BeginLoop>> => (status = "ok" /\ list = <<EndLoop>>)

\* a dead loop with a nested loop has been discarded and the next instruction
\* has been emitted
C4_Witness ==
    /\ input = <<SetValue(0), BeginLoop, BeginLoop, EndLoop, EndLoop, Output>>
    /\ list = <<SetValue(0), Output>>
    /\ loop_comment_depth = 0

(* C5: optimizing [AddValue(a), AddValue(b)] yields, for all a, b of i8, the
   single instruction AddValue(c) with c = a + b wrapped to i8.  (Read with
   the first rule in force: for c = 0 the merged AddValue(0) is dropped and
   the result is empty.) *)
C5_AddAddWraps ==
    (Len(input) = 2 /\ input[1].op = "AddValue" /\ input[2].op = "AddValue") =>
        LET c == WrapI8(input[1].v + input[2].v)
        IN /\ status = "ok"
           /\ list = IF c = 0 THEN <<>> ELSE <<AddValue(c)>>

(* C6: optimizing [SetValue(a), AddValue(b)] yields, for all a, b of i8,
   [SetValue(c)] with c = a + b wrapped to i8. *)
C6_SetAddWraps ==
    (Len(input) = 2 /\ input[1].op = "SetValue" /\ input[2].op = "AddValue") =>
        /\ status = "ok"
        /\ list = <<SetValue(WrapI8(input[1].v + input[2].v))>>

(* C7: a SetValue overrides the value instruction before it: for all a, b
   of i8 both [SetValue(a), SetValue(b)] and [AddValue(a), SetValue(b)]
   optimize to exactly [SetValue(b)]. *)
C7_SetOverrides ==
    (Len(input) = 2 /\ input[1].op \in {"SetValue", "AddValue"}
                    /\ input[2].op = "SetValue") =>
        /\ status = "ok"
        /\ list = <<input[2]>>

\* both overridden shapes have been optimized
C7_Witness ==
    /\ input \in {<<SetValue(5), SetValue(3)>>, <<AddValue(5), SetValue(3)>>}
    /\ list = <<SetValue(3)>>

(* C8: with EndLoop last in the list and depth 0, pushing AddValue(v), v # 0,
   appends SetValue(v), and pushing SetValue(0) leaves the list unchanged;
   so does a SetValue(0) that results from merging: [EndLoop, AddValue(a),
   AddValue(-a)] optimizes to [EndLoop]. *)
C8_PostLoopRules ==
    /\ Len(input) >= 1 =>
         LET before == After(Len(input) - 1)
         IN (/\ before.status = "ok"
             /\ before.loop_comment_depth = 0
             /\ last(before) = EndLoop)
            =>
            /\ (Pushed.op = "AddValue" /\ Pushed.v # 0) =>
                 /\ status = "ok" /\ loop_comment_depth = 0
                 /\ list = Append(before.list, SetValue(Pushed.v))
            /\ Pushed = SetValue(0) =>
                 /\ status = "ok" /\ loop_comment_depth = 0
                 /\ list = before.list
    /\ (/\ Len(input) = 3 /\ input[1] = EndLoop
        /\ input[2].op = "AddValue" /\ input[3] = AddValue(-input[2].v))
       => (status = "ok" /\ list = <<EndLoop>>)

\* an add after a loop has become a set, and a merge to zero has removed it
C8_Witness ==
    \/ input = <<Output, EndLoop, AddValue(3)>>
          /\ list = <<Output, EndLoop, SetValue(3)>>
    \/ input = <<EndLoop, AddValue(1), AddValue(-1)>> /\ list = <<EndLoop>>

(* C9: AddValue(0) never appears in the emitted list, whatever is pushed,
   also when it arises as the sum of two merged AddValue payloads. *)
C9_NoAddZero ==
    \A i \in 1..Len(list) : list[i] # AddValue(0)

\* two AddValue payloads have been merged to zero
C9_Witness ==
    /\ status = "ok"
    /\ input \in {<<Output, AddValue(1), AddValue(-1)>>,
                  <<Output, AddValue(I8Min), AddValue(I8Min)>>}
    /\ list = <<Output>>

(* C10: pushing EndLoop onto a list that ends in AddValue(v) replaces the
   emitted BeginLoop, AddValue(v) and the EndLoop by SetValue(0), itself put
   through the rules against the new tail, if and only if v is odd and the
   second-to-last entry is BeginLoop; otherwise (v even, or no BeginLoop two
   positions back) EndLoop is appended and nothing is removed. *)
C10_OddLoopRule ==
    Len(input) >= 1 =>
        LET before == After(Len(input) - 1)
            n == Len(before.list)
            l == last(before)
        IN (/\ before.status = "ok"
            /\ before.loop_comment_depth = 0
            /\ l.op = "AddValue"
            /\ Pushed = EndLoop)
           =>
           IF Odd(l.v) /\ n >= 2 /\ before.list[n - 1] = BeginLoop
           THEN current = push([before EXCEPT !.list = SubSeq(@, 1, n - 2)],
                               SetValue(0), overflow_checks)
           ELSE status = "ok" /\ list = Append(before.list, EndLoop)

(* C11: optimizing [AddPointer(a), AddPointer(b)] yields exactly
   [AddPointer(a + b)]: the sum is the integer sum, not wrapped to the width
   of a cell, and a sum of 0 stays in the list as AddPointer(0). *)
C11_PointerPairMerges ==
    (Len(input) = 2) =>
        /\ status = "ok" /\ loop_comment_depth = 0
        /\ list = <<AddPointer(input[1].v + input[2].v)>>

\* a sum beyond the range of i8, and a sum of zero, have been merged
C11_Witness ==
    \/ input = <<AddPointer(100), AddPointer(100)>> /\ list = <<AddPointer(200)>>
    \/ input = <<AddPointer(5), AddPointer(-5)>> /\ list = <<AddPointer(0)>>

\* the table of the lexer as the claim C12 states it
C12_Table(c) ==
    CASE c = "-" -> AddValue(-1)
      [] c = "+" -> AddValue(1)
      [] c = "<" -> AddPointer(-1)
      [] c = ">" -> AddPointer(1)
      [] c = "," -> Input
      [] c = "." -> Output
      [] c = "[" -> BeginLoop
      [] c = "]" -> EndLoop

C12_Recognized == {"-", "+", "<", ">", ",", ".", "[", "]"}

\* the raw instructions of the recognized characters of s, in order
C12_Raw(s) ==
    LET f == SelectSeq(s, LAMBDA c : c \in C12_Recognized)
    IN [i \in 1..Len(f) |-> C12_Table(f[i])]

\* s without its i-th character
C12_Without(s, i) == SubSeq(s, 1, i - 1) \o SubSeq(s, i + 1, Len(s))

(* C12: the lexer maps exactly the characters - + < > , . [ ] to AddValue(-1),
   AddValue(1), AddPointer(-1), AddPointer(1), Input, Output, BeginLoop,
   EndLoop and discards every other character: parse_bf of a source is
   optimize of the raw instructions of its recognized characters, and a
   source with an unrecognized character removed (or, read backwards,
   inserted) parses to the same result. *)
C12_LexerThenOptimize ==
    /\ input = C12_Raw(source)
    /\ current = parse_bf(source, overflow_checks)
    /\ current = optimize(C12_Raw(source), overflow_checks)
    /\ \A i \in 1..Len(source) :
         source[i] \notin C12_Recognized =>
            parse_bf(C12_Without(source, i), overflow_checks) = current

\* a source with a comment character inside a pair that the optimizer merges
C12_Witness ==
    /\ source = <<"+", "x", "-", ">">>
    /\ status = "ok"
    /\ list = <<AddPointer(1)>>

\* the instructions of the machine are balanced: no EndLoop without an open
\* BeginLoop before it, and no BeginLoop left open
Balanced(s) ==
    /\ \A j \in 1..Len(s) : Nesting(s, 1, j) >= 0
    /\ Nesting(s, 1, Len(s)) = 0

\* a return instruction has been emitted into some block
RetEmitted ==
    \E b \in 1..Len(gen.blocks) : \E j \in 1..Len(gen.blocks[b]) :
        gen.blocks[b][j].k \in {"ret_val", "ret_const"}

(* C13: code generation fails fatally exactly when it meets an EndLoop with
   an empty loop-context stack, and it does so before any return instruction
   is emitted; a sequence in which every EndLoop has an unmatched BeginLoop
   before it never fails. *)
C13_UnmatchedEndLoopPanics ==
    LET s == machine.instructions IN
    /\ gen.phase = "panicked" =>
          /\ s[gen.i] = EndLoop
          /\ Nesting(s, 1, gen.i - 1) = 0
          /\ ~RetEmitted
    /\ gen.phase # "panicked" =>
          \A j \in 1..gen.i : Nesting(s, 1, j) >= 0
    /\ (\A j \in 1..Len(s) : Nesting(s, 1, j) >= 0) => gen.phase # "panicked"

\* the generator has panicked at the EndLoop after a closed loop
C13_Witness ==
    /\ machine.instructions = <<BeginLoop, EndLoop, EndLoop, Output>>
    /\ gen.phase = "panicked"
    /\ gen.i = 3

\* the blocks that hold the return of a loaded cell: the normal exit
C17_NormalExits ==
    {b \in 1..Len(gen.blocks) :
        \E j \in 1..Len(gen.blocks[b]) : gen.blocks[b][j].k = "ret_val"}

\* instructions that read or write a cell of the array
C17_CellAccess == {"load_cell", "store_cell", "store_val", "store_zero_at_i"}

(* C17: for every instruction sequence that compiles, the generator emits
   exactly one normal epilogue; it loads the current cell first, then frees
   the buffer, then returns the loaded value; and no block reads or writes
   the array after the free it contains. *)
C17_LoadFreeReturn ==
    gen.phase = "done" =>
        /\ Cardinality(C17_NormalExits) = 1
        /\ \A b \in C17_NormalExits :
             LET code == gen.blocks[b]
                 n == Len(code)
             IN /\ n >= 3
                /\ code[n - 2].k = "load_cell"
                /\ code[n - 1].k = "call_free"
                /\ code[n].k = "ret_val"
        /\ \A b \in 1..Len(gen.blocks) : \A j, k \in 1..Len(gen.blocks[b]) :
             (gen.blocks[b][j].k = "call_free" /\ j < k)
                => gen.blocks[b][k].k \notin C17_CellAccess

\* every block has at least one instruction, its last instruction is a
\* terminator and no other instruction of it is one
C20_Terminated(code) ==
    /\ Len(code) >= 1
    /\ code[Len(code)].k \in Terminators
    /\ \A j \in 1..(Len(code) - 1) : code[j].k \notin Terminators

(* C20: for every balanced instruction sequence, under every overflow policy
   and either debug setting, every basic block the generator created (entry,
   zero-fill blocks, loop header / body / footer, check_success, check_abort)
   ends with exactly one terminator and holds nothing after it. *)
C20_BlocksTerminated ==
    (gen.phase = "done" /\ Balanced(machine.instructions)) =>
        \A b \in 1..Len(gen.blocks) : C20_Terminated(gen.blocks[b])

\* a loop with a checked pointer move has been compiled
C20_Witness ==
    /\ gen.phase = "done"
    /\ machine.instructions = <<BeginLoop, AddPointer(1), EndLoop>>
    /\ machine.memory_overflow = "Abort"
    /\ gen.abort_bb # 0
    /\ \A b \in 1..Len(gen.blocks) : C20_Terminated(gen.blocks[b])

\* the capacity of the tape of the machine (cache_size below 2^32)
Capacity == machine.cache_size.lo

\* the expected instructions of the abort path after a failed range check
C14_AbortPath == <<"cond_br", "call_free", "ret_const">>

(* C14: under the Abort policy, as soon as a pointer move produces an index
   outside [0, capacity) control goes to the abort path, which frees the
   buffer and returns the sentinel -1, and nothing of the program executes
   after the move (no index outside the range is ever stored as the current
   cell); a program of capacity + 1 AddPointer(1) ends through that path. *)
C14_AbortOnOverflow ==
    machine.memory_overflow = "Abort" =>
        /\ run.move.done => run.move.after \in 0..(Capacity - 1)
        /\ run.overflowed =>
             /\ run.status # "undefined"
             /\ ~run.move.done
             /\ run.move.after \notin 0..(Capacity - 1)
             /\ Len(run.after_overflow) <= Len(C14_AbortPath)
             /\ run.after_overflow
                  = SubSeq(C14_AbortPath, 1, Len(run.after_overflow))
             /\ run.status = "returned" =>
                  /\ run.exit = "abort" /\ run.result = -1
                  /\ run.heap = "freed"
                  /\ run.after_overflow = C14_AbortPath
        /\ (/\ machine.instructions = [j \in 1..(Capacity + 1) |-> AddPointer(1)]
            /\ run.status = "returned")
           => run.exit = "abort" /\ run.result = -1

\* capacity + 1 moves to the right have ended in the abort block
C14_Witness ==
    /\ machine.memory_overflow = "Abort"
    /\ machine.cache_size = Wide(0, 2)
    /\ machine.instructions = <<AddPointer(1), AddPointer(1), AddPointer(1)>>
    /\ run.status = "returned"
    /\ run.exit = "abort" /\ run.result = -1
    /\ run.move.insn = 2

(* C15: the abort sentinel -1 is distinct from every normal return value: no
   normal exit, whatever the final cell value 0..255, returns the value the
   abort path returns. *)
C15_SentinelDistinct ==
    (run.status = "returned" /\ run.exit = "success" /\ ~run.ub)
        => run.result # -1

(* C16: under the Wrap policy with capacity >= 1 the index is in
   [0, capacity) after every executed pointer move, and AddPointer(capacity)
   leaves the index unchanged. *)
C16_WrapKeepsIndexInRange ==
    (machine.memory_overflow = "Wrap" /\ Capacity >= 1) =>
        /\ run.ptr_var \in 0..(Capacity - 1)
        /\ Balanced(machine.instructions) => run.status # "undefined"
        /\ run.move.done =>
             /\ run.move.after \in 0..(Capacity - 1)
             /\ run.index_var = run.move.after
             /\ run.ptr_var = run.move.after
             /\ machine.instructions[run.move.insn] = AddPointer(Capacity)
                  => run.move.after = run.move.before

\* a move to the left has wrapped to the last cell and a move by the
\* capacity has left the index there
C16_Witness ==
    /\ machine.memory_overflow = "Wrap"
    /\ machine.cache_size = Wide(0, 2)
    /\ machine.instructions = <<AddPointer(-1), AddPointer(2)>>
    /\ run.move = [insn |-> 2, before |-> 1, sum |-> 3, after |-> 1,
                   done |-> TRUE]

\* the call is at the first instruction lowered from the machine
C18_AtFirstInstruction ==
    run.status = "running" /\ run.bb = gen.start[1] /\ run.ip = gen.start[2]

(* C18: for every capacity >= 0 the zero-fill of the prologue ends after
   exactly capacity iterations (main.rs; compiler.rs zeroes with one memset
   and has no loop), and when the first instruction of the program executes
   every cell holds 0, the index is 0 and the current-cell pointer is the
   base of the buffer. *)
C18_PrologueZeroes ==
    /\ run.iterations <= Capacity
    /\ C18_AtFirstInstruction =>
         /\ run.heap = "live"
         /\ run.array = [j \in 1..Capacity |-> 0]
         /\ run.index_var = 0
         /\ run.ptr_var = 0
         /\ run.iterations = IF machine.revision = "main" THEN Capacity ELSE 0

\* the loop has run over a buffer of garbage and the program is about to
\* start
C18_Witness ==
    /\ machine.revision = "main"
    /\ machine.cache_size = Wide(0, 2)
    /\ C18_AtFirstInstruction
    /\ run.iterations = 2
    /\ run.array = <<0, 0>>

(* C19: the index is 64 bits wide: AddPointer(v) adds the whole 64-bit
   payload v to it, without truncation (also for v = 2^32), and the capacity
   that the Wrap and Abort policies compare against is the machine's
   cache_size, not a truncation of it. *)
C19_IndexIs64Bit ==
    /\ Wide(0, gen.cache_size) = machine.cache_size
    /\ run.move.insn # 0 =>
         LET v == payload(machine.instructions[run.move.insn])
         IN Wide(0, run.move.sum) = Wide(v.hi, run.move.before + v.lo)

\* the bytes of "Hello World!" and a newline
C21_Expected == <<72, 101, 108, 108, 111, 32, 87, 111, 114, 108, 100, 33, 10>>

(* C21: the hello_world source of main.rs, lexed, optimized, compiled with
   the Undefined policy and run on a tape that is large enough, writes
   exactly the bytes of "Hello World!" and a newline, in order, never leaves
   the tape, and ends through the normal epilogue. *)
C21_HelloWorld ==
    /\ Len(run.stdout) <= Len(C21_Expected)
    /\ run.stdout = SubSeq(C21_Expected, 1, Len(run.stdout))
    /\ run.status # "undefined"
    /\ run.heap = "live" => ~run.ub
    /\ run.status = "returned" =>
         /\ run.exit = "success"
         /\ run.stdout = C21_Expected

\* the run has returned after the thirteenth byte
C21_Witness ==
    /\ run.status = "returned"
    /\ run.exit = "success"
    /\ Len(run.stdout) = 13
    /\ run.stdout[1] = 72 /\ run.stdout[13] = 10

\* the generator after the first k instructions of machine m
RECURSIVE LoweredTo(_, _)
LoweredTo(m, k) ==
    IF k = 0 THEN prologue(m)
    ELSE lower(LoweredTo(m, k - 1), m, m.instructions[k])

\* the position of the BeginLoop that the EndLoop at s[j] closes
Opener(s, j) ==
    CHOOSE m \in 1..(j - 1) : s[m] = BeginLoop /\ MatchingEnd(s, m) = j

(* C22: at every point of compile that is not a panic the size of loop_stack
   is the number of BeginLoop lowered minus the number of EndLoop lowered;
   each EndLoop ends the block that was current with a branch to the header
   of the most recently opened loop that is still open, and makes the footer
   of that same loop the current block. *)
C22_LoopStack ==
    LET s == machine.instructions IN
    gen.phase # "panicked" =>
        /\ Len(gen.loop_stack) = Nesting(s, 1, gen.i)
        /\ (gen.i >= 1 /\ s[gen.i] = EndLoop) =>
             LET opened == LoweredTo(machine, Opener(s, gen.i))
                 context == opened.loop_stack[Len(opened.loop_stack)]
                 before == LoweredTo(machine, gen.i - 1)
                 left == IF gen.phase = "done"
                         THEN LoweredTo(machine, gen.i).blocks[before.bb]
                         ELSE gen.blocks[before.bb]
             IN /\ gen.names[context.loop_header_bb] = "loop-header"
                /\ gen.names[context.loop_footer_bb] = "loop-footer"
                /\ context.loop_footer_bb = context.loop_header_bb + 2
                /\ left[Len(left)] = Op("br", context.loop_header_bb, 0)
                /\ LoweredTo(machine, gen.i).bb = context.loop_footer_bb

\* the inner of two nested loops has been closed
C22_Witness ==
    /\ machine.instructions = <<BeginLoop, BeginLoop, EndLoop, EndLoop>>
    /\ gen.phase = "lowering"
    /\ gen.i = 3
    /\ Len(gen.loop_stack) = 1
    /\ gen.names[gen.bb] = "loop-footer"

\* the instructions that load or store the current cell
C23_CurrentCellAccess == {"load_cell", "store_cell", "store_val"}

(* C23: under the Abort policy with capacity >= 1 every access of the
   current cell (the load / store of SetValue, AddValue, Input, Output, the
   loop-header test and the epilogue load) is made with an index in
   [0, capacity), for any program and any pointer moves. *)
C23_AbortAccessInRange ==
    (machine.memory_overflow = "Abort" /\ Capacity >= 1) =>
        /\ run.ptr_var \in 0..(Capacity - 1)
        /\ (/\ run.status = "running"
            /\ run.ip <= Len(gen.blocks[run.bb])
            /\ fetch(gen, run).k \in C23_CurrentCellAccess)
           => /\ run.ptr_var \in 0..(Capacity - 1)
              /\ run.ptr_var < Len(run.array)
        /\ Balanced(machine.instructions) => run.status # "undefined"

\* a byte has been read into and written from the second cell after a
\* checked move
C23_Witness ==
    /\ machine.cache_size = Wide(0, 2)
    /\ machine.instructions = <<AddPointer(1), Input, Output>>
    /\ run.status = "returned" /\ run.exit = "success"
    /\ run.ptr_var = 1
    /\ run.stdout = <<1>>

\* the blocks of the generated function with a given name
BlocksNamed(name) == {b \in 1..Len(gen.names) : gen.names[b] = name}

\* the positions of the AddPointer instructions lowered so far
LoweredMoves ==
    {j \in 1..gen.i : machine.instructions[j].op = "AddPointer"}

\* the positions (block, index) of the range checks: a cond_br that follows
\* an icmp ult
RangeChecks ==
    UNION {{<<b, j>> : j \in {k \in 2..Len(gen.blocks[b]) :
                                 /\ gen.blocks[b][k].k = "cond_br"
                                 /\ gen.blocks[b][k - 1].k = "icmp_ult_idx"}} :
           b \in 1..Len(gen.blocks)}

(* C24: during one compile at most one abort block is created; it exists if
   and only if the policy is Abort and at least one AddPointer has been
   lowered; every range check branches to that block on failure; each
   AddPointer lowered under Abort creates exactly one fresh check_success
   block, which becomes the current block; and the abort block only frees
   and returns -1, apart from the block of the normal epilogue. *)
C24_SharedAbortBlock ==
    gen.phase # "panicked" =>
        LET checks == RangeChecks
            aborts == BlocksNamed("check_abort")
            moves == Cardinality(LoweredMoves)
        IN
        /\ Cardinality(aborts) <= 1
        /\ aborts = IF gen.abort_bb = 0 THEN {} ELSE {gen.abort_bb}
        /\ (gen.abort_bb # 0)
             <=> (machine.memory_overflow = "Abort" /\ moves > 0)
        /\ \A p \in checks :
             /\ gen.blocks[p[1]][p[2]].b = gen.abort_bb
             /\ gen.names[gen.blocks[p[1]][p[2]].a] = "check_success"
        /\ Cardinality(checks)
             = IF machine.memory_overflow = "Abort" THEN moves ELSE 0
        /\ Cardinality(BlocksNamed("check_success")) = Cardinality(checks)
        /\ (/\ machine.memory_overflow = "Abort"
            /\ gen.i >= 1 /\ gen.i \in LoweredMoves
            /\ gen.phase = "lowering")
           => LET before == LoweredTo(machine, gen.i - 1)
              IN /\ gen.names[gen.bb] = "check_success"
                 /\ gen.bb = Len(before.blocks) + 1
                 /\ gen.blocks[gen.bb][1].k \notin Terminators
        /\ (gen.phase = "done" /\ gen.abort_bb # 0) =>
             /\ gen.blocks[gen.abort_bb]
                  = <<Op("call_free", 0, 0), Op("ret_const", -1, 0)>>
             /\ gen.abort_bb \notin C17_NormalExits
             /\ \A b \in C17_NormalExits :
                  LET code == gen.blocks[b]
                  IN code[Len(code)].k = "ret_val"

\* two moves have been lowered under Abort and share one abort block
C24_Witness ==
    /\ gen.phase = "done"
    /\ machine.memory_overflow = "Abort"
    /\ machine.instructions = <<AddPointer(1), AddPointer(-1)>>
    /\ Cardinality(BlocksNamed("check_success")) = 2
    /\ Cardinality(BlocksNamed("check_abort")) = 1

\* machines whose loops are matched, with instructions that make the
\* current cell nonzero and zero again
MaxLoopRunInsns == 4

LoopRunAlphabet ==
    {SetValue(1), AddValue(-1), AddPointer(1), BeginLoop, EndLoop}

LoopRunMachines ==
    {BfMachine(r, Wide(0, c), p, o, FALSE) :
        r \in Revisions, c \in 1..MaxCache,
        p \in {q \in SeqsUpTo(LoopRunAlphabet, MaxLoopRunInsns) : Balanced(q)},
        o \in MemoryOverflowBehaviours}

InitLoopRun ==
    /\ NoOptimize
    /\ machine \in LoopRunMachines
    /\ gen = compile(machine)
    /\ gen.phase = "done"
    /\ run = call

LoopRunSpec == InitLoopRun /\ [][Step]_vars

\* the call has just branched to a block with the given name
Entered(name) ==
    /\ run.status = "running"
    /\ run.prev_bb # 0
    /\ run.ip = 1
    /\ gen.names[run.bb] = name

\* the value of the cell ptr_var addresses
CurrentCell == run.array[run.ptr_var + 1]

(* C25: a loop's body block is entered only from its header with the current
   cell nonzero, and its footer block only from its header with the current
   cell equal to 0: the instruction after a matched EndLoop finds 0 in the
   current cell. *)
C25_LoopExitsOnZero ==
    /\ Entered("loop-body") =>
         /\ run.prev_bb = run.bb - 1
         /\ gen.names[run.prev_bb] = "loop-header"
         /\ in_array(run, run.ptr_var)
         /\ CurrentCell # 0
    /\ Entered("loop-footer") =>
         /\ run.prev_bb = run.bb - 2
         /\ gen.names[run.prev_bb] = "loop-header"
         /\ in_array(run, run.ptr_var)
         /\ CurrentCell = 0

\* the loop of SetValue(1) [ AddValue(-1) ] has run its body and is left
C25_Witness ==
    /\ machine.instructions = <<SetValue(1), BeginLoop, AddValue(-1), EndLoop>>
    /\ Entered("loop-footer")
    /\ CurrentCell = 0

\* the change of the suppression depth a suppressed push makes
DepthChange(insn) ==
    IF insn = BeginLoop THEN 1 ELSE IF insn = EndLoop THEN -1 ELSE 0

\* a push made while the suppression depth is nonzero
C26_SuppressedPush ==
    (loop_comment_depth # 0 /\ Len(input') = Len(input) + 1) =>
        /\ list' = list
        /\ status' = status
        /\ loop_comment_depth'
             = loop_comment_depth + DepthChange(input'[Len(input')])

(* C26: while the suppression depth is nonzero a push leaves the emitted
   list unchanged whatever the instruction, and changes the depth by +1 for
   BeginLoop, -1 for EndLoop and 0 for anything else; the depth is never
   negative; so as long as the matching EndLoop has not arrived every
   pushed instruction is discarded. *)
C26_SuppressionFrame ==
    /\ [][C26_SuppressedPush]_vars
    /\ [](loop_comment_depth >= 0)

\* a nested loop and an Output have been discarded inside a dead loop whose
\* EndLoop has not arrived
C26_Witness ==
    /\ input = <<SetValue(0), BeginLoop, BeginLoop, EndLoop, Output>>
    /\ loop_comment_depth = 1
    /\ list = <<SetValue(0)>>

\* the most calls of push that are active at once
MaxNestedPush == 3

\* one push: its chain of re-insertions and the growth of the list
C27_OnePush ==
    Len(input') = Len(input) + 1 =>
        /\ push_calls(current, input'[Len(input')], overflow_checks)
             <= MaxNestedPush
        /\ Len(list') <= Len(list) + 1

(* C27: every push returns or panics after a chain of at most three nested
   calls of push, and no push makes the emitted list longer by more than one
   entry; so the list is never longer than the sequence pushed so far, and
   the output of optimize is never longer than its input. *)
C27_PushTerminates ==
    /\ [][C27_OnePush]_vars
    /\ [](/\ Len(list) <= Len(input)
          /\ Len(optimize(input, overflow_checks).list) <= Len(input))

\* the push of EndLoop has rewritten the loop to SetValue(0), which has
\* overridden SetValue(1): three nested calls
C27_Witness ==
    /\ input = <<SetValue(1), BeginLoop, AddValue(1), EndLoop>>
    /\ push_calls(After(3), EndLoop, overflow_checks) = MaxNestedPush
    /\ list = <<SetValue(0)>>

----------------------------------------------------------------------------
(* The loop BeginLoop, AddValue(v), EndLoop on one cell, and its replacement *)

\* the body: load, add i8, store
\* (variant: the addition saturates at the limits of i8)
body_AddValueSaturating(cell, v) ==
    IF cell + v > I8Max THEN I8Max
    ELSE IF cell + v < I8Min THEN I8Min ELSE cell + v
body_AddValue(cell, v) == WrapI8(cell + v)

\* the loop for up to n executions of the body: the header leaves the loop
\* when the cell is 0, and otherwise the body runs and branches back
RECURSIVE while_AddValue(_, _, _)
while_AddValue(cell, v, n) ==
    IF n = 0 THEN cell
    ELSE IF cell = 0 THEN 0
    ELSE while_AddValue(body_AddValue(cell, v), v, n - 1)

\* the same for up to I8Mod executions, in sixteen stretches: 0 if the loop
\* is left, and otherwise a value the cell has held before, from which the
\* loop never ends
quarter_AddValue(cell, v) ==
    LET n == I8Mod \div 16
        a1 == while_AddValue(cell, v, n)
        a2 == while_AddValue(a1, v, n)
        a3 == while_AddValue(a2, v, n)
    IN while_AddValue(a3, v, n)

loop_AddValue(cell, v) ==
    LET a1 == quarter_AddValue(cell, v)
        a2 == quarter_AddValue(a1, v)
        a3 == quarter_AddValue(a2, v)
    IN quarter_AddValue(a3, v)

\* the payloads of the loops that are run: the small ones and the largest
MaxDelta == 3

Deltas == (((-MaxDelta)..MaxDelta) \ {0}) \cup {I8Max, -I8Max}

\* the loop has been pushed and the function is at the loop's header with
\* some value in the current cell
InitDelta ==
    /\ overflow_checks \in BOOLEAN
    /\ \E v \in Deltas :
         /\ input = <<BeginLoop, AddValue(v), EndLoop>>
         /\ \E c \in I8 :
              run = [status |-> "loop-header", start |-> c, delta |-> v,
                     cell |-> c, iterations |-> 0]
    /\ LET r == optimize(input, overflow_checks)
       IN /\ list = r.list
          /\ loop_comment_depth = r.loop_comment_depth
          /\ status = r.status
    /\ source = <<>> /\ machine = <<>> /\ gen = <<>>

\* the header finds a nonzero cell and the body is executed; a loop that
\* has not ended after I8Mod executions is not followed further (the cell
\* has held some value twice, so the loop never ends)
Body ==
    /\ run.status = "loop-header"
    /\ run.cell # 0
    /\ run.iterations < I8Mod
    /\ run' = [run EXCEPT !.cell = body_AddValue(@, run.delta),
                          !.iterations = @ + 1]
    /\ UNCHANGED <<list, loop_comment_depth, status, overflow_checks, input,
                   source, machine, gen>>

\* the header finds 0 in the cell and branches to the footer
Leave ==
    /\ run.status = "loop-header"
    /\ run.cell = 0
    /\ run' = [run EXCEPT !.status = "loop-footer"]
    /\ UNCHANGED <<list, loop_comment_depth, status, overflow_checks, input,
                   source, machine, gen>>

NextDelta == Body \/ Leave

DeltaSpec == InitDelta /\ [][NextDelta]_vars

\* C28 as stated: for an odd delta other than +1 and -1 some nonzero
\* starting value never reaches 0
C28_OnlyUnitDeltas ==
    (IsOdd(run.delta) /\ run.delta \notin {1, -1}) =>
        \E c \in I8 \ {0} : loop_AddValue(c, run.delta) # 0

(* C28 (amended): under 8-bit wraparound every odd delta drives every
   starting cell value to 0 in at most 255 iterations, so the loop
   BeginLoop, AddValue(v), EndLoop leaves the cell as SetValue(0) does for
   every odd v, and the loop is replaced exactly for the odd v; for an even
   v an odd starting value never reaches 0. *)
C28_OddDeltaReachesZero ==
    /\ IsOdd(run.delta) =>
         /\ run.cell # 0 => run.iterations < I8Mod - 1
         /\ run.status = "loop-footer" => run.cell = SetValue(0).v
         /\ run.iterations = 0 => loop_AddValue(run.start, run.delta) = 0
         /\ list = <<SetValue(0)>>
    /\ ~IsOdd(run.delta) =>
         /\ list = input
         /\ IsOdd(run.start) =>
              /\ run.status = "loop-header" /\ run.cell # 0
              /\ run.iterations = 0 => loop_AddValue(run.start, run.delta) # 0

\* three is added to a cell holding 1 until it is 0, 85 times, and the loop
\* is left
C28_Witness ==
    /\ run = [status |-> "loop-footer", start |-> 1, delta |-> 3,
              cell |-> 0, iterations |-> 85]
    /\ list = <<SetValue(0)>>

\* the call sites of the debug routine in the generated function
DebugCalls ==
    UNION {{<<b, j>> : j \in {k \in 1..Len(gen.blocks[b]) :
                                 gen.blocks[b][k].k = "call_debug_log"}} :
           b \in 1..Len(gen.blocks)}

\* the instructions of the program, without the DebugLog entries
Program == SelectSeq(machine.instructions, LAMBDA insn : insn # DebugLog)

\* debug instrumentation is enabled: the flag of main.rs is set, or the list
\* handed to compiler.rs has a DebugLog before the first instruction, between
\* every two and after the last
DebugEnabled ==
    IF machine.revision = "main" THEN machine.emit_debug_log
    ELSE LET s == machine.instructions
         IN /\ Len(s) % 2 = 1
            /\ \A j \in 1..Len(s) : (s[j] = DebugLog) <=> (j % 2 = 1)

(* C29: with debug instrumentation enabled the function generated for a
   program of n >= 1 instructions has n + 1 call sites of the debug routine
   (before the first instruction, between every two and after the last),
   and the routine has been materialized, once. *)
C29_DebugCallSites ==
    (gen.phase = "done" /\ DebugEnabled /\ Len(Program) >= 1) =>
        /\ Cardinality(DebugCalls) = Len(Program) + 1
        /\ gen.debug_log

\* the sequence has no EndLoop without an open BeginLoop before it and ends
\* with a BeginLoop left open
Dangling(s) ==
    /\ \A j \in 1..Len(s) : Nesting(s, 1, j) >= 0
    /\ Nesting(s, 1, Len(s)) > 0

(* C30: for an instruction sequence that ends with a BeginLoop left open and
   has no unmatched EndLoop, the optimizer returns normally: no push of the
   sequence panics. *)
C30_DanglingNotDiagnosed == Dangling(input) => status = "ok"

\* the same for compile: it does not fail on such a sequence, and when it is
\* done the loop stack is not empty, the normal epilogue is in the block
\* written last, a block created inside the innermost open loop, and the
\* footer of that loop is left empty
C30_EpilogueInOpenLoop ==
    Dangling(machine.instructions) =>
        /\ gen.phase # "panicked"
        /\ gen.phase = "done" =>
             /\ gen.loop_stack # <<>>
             /\ LET top == gen.loop_stack[Len(gen.loop_stack)]
                IN /\ C17_NormalExits = {gen.bb}
                   /\ gen.bb > top.loop_header_bb
                   /\ gen.bb \notin {top.loop_footer_bb, gen.abort_bb}
                   /\ gen.blocks[top.loop_footer_bb] = <<>>

----------------------------------------------------------------------------
(* The function generated for a sequence s and the function generated for  *)
(* optimize(s), called on the same standard input                          *)

\* getchar on a standard input of which pos bytes have been read: the next
\* byte, or EOF, which is -1 as an i8
getchar(stdin, pos) == IF pos < Len(stdin) THEN stdin[pos + 1] ELSE -1

\* the call at the first instruction of the program: the prologue has
\* allocated and zeroed the memory whatever malloc returned, the index is 0
\* and ptr_var addresses the first cell; in main.rs the zero-fill loop has
\* run cache_size times and was left from clear-loop-cond, the second block
at_start(g, m) ==
    LET r == [call EXCEPT !.bb = g.start[1], !.ip = g.start[2],
                          !.heap = "live",
                          !.array = [j \in 1..g.cache_size |-> 0]]
    IN IF m.revision = "main"
       THEN [r EXCEPT !.prev_bb = 2, !.i = g.cache_size,
                      !.i_next = g.cache_size, !.iterations = g.cache_size]
       ELSE r

\* what the rest of a call depends on: its state without what it has
\* written, and its position in the standard input
core(r, pos) == <<[r EXCEPT !.stdout = <<>>], pos>>

\* a call that is followed to its end: `end` is "none" while it runs, then
\* "returned", "undefined", or "diverged" when the call has come back to the
\* state of the snapshot snap, taken every power steps (it then never ends)
track(r) ==
    [r |-> r, pos |-> 0, end |-> "none",
     snap |-> core(r, 0), lam |-> 0, power |-> 1]

\* the values a load can yield at the position of the call
loaded(g, t) ==
    IF /\ t.end = "none"
       /\ t.r.ip <= Len(g.blocks[t.r.bb])
       /\ fetch(g, t.r).k = "load_cell"
       /\ ~in_array(t.r, t.r.ptr_var)
    THEN undetermined(t.r) ELSE {0}

\* one instruction of a followed call
advance(g, t, stdin, byte) ==
    IF t.end # "none" THEN t
    ELSE LET reads == /\ t.r.ip <= Len(g.blocks[t.r.bb])
                      /\ fetch(g, t.r).k = "call_getchar"
             r1 == step(g, t.r,
                        IF reads THEN getchar(stdin, t.pos) ELSE byte, <<>>)
             pos1 == IF reads /\ t.pos < Len(stdin) THEN t.pos + 1 ELSE t.pos
         IN IF r1.status # "running"
            THEN [t EXCEPT !.r = r1, !.pos = pos1, !.end = r1.status]
            ELSE IF core(r1, pos1) = t.snap
            THEN [t EXCEPT !.r = r1, !.pos = pos1, !.end = "diverged"]
            ELSE IF t.lam + 1 = t.power
            THEN [t EXCEPT !.r = r1, !.pos = pos1, !.snap = core(r1, pos1),
                           !.lam = 0, !.power = 2 * @]
            ELSE [t EXCEPT !.r = r1, !.pos = pos1, !.lam = @ + 1]

\* the sequences that are optimized and run: every balanced sequence of up
\* to MaxEquivInsns instructions without Input, and a few longer programs
MaxEquivInsns == 3

MaxStdin == 1

EquivAlphabet ==
    {AddValue(1), AddValue(-1), Output, AddPointer(1), AddPointer(-1),
     BeginLoop, EndLoop}

LongPrograms ==
    {<<AddValue(I8Max), AddValue(1), Output>>,
     pushed(<<",", "[", "-", "]", ".">>),
     pushed(<<"+", "[", "-", "]", "+", ".">>),
     pushed(<<"+", "[", ">", "+", "<", "-", "]", ">", ".">>),
     pushed(<<",", "[", ".", "-", "]", "[", ".", "]">>),
     pushed(<<"+", "[", "[", "-", "]", "]", "+", ".">>),
     pushed(<<"+", "+", "[", "-", "-", "]", ".">>),
     pushed(<<"+", "[", ".", "+", "-", "]">>)}

EquivPrograms ==
    {q \in SeqsUpTo(EquivAlphabet, MaxEquivInsns) : Balanced(q)}
    \cup LongPrograms

\* the capacities of the machines: one and two cells, and three, which does
\* not divide 2^32
EquivCaches == {1, 2, 3}

\* the standard inputs of a program: no longer than the number of its Input
\* instructions, and none with more than MaxStdin bytes
Stdins(s) ==
    LET reads == Len(SelectSeq(s, LAMBDA insn : insn = Input))
    IN {t \in SeqsUpTo({0, 1}, MaxStdin) : Len(t) <= reads}

\* index and current-cell offset are inside the array
InRange(r) ==
    /\ r.index_var >= 0 /\ r.index_var < Len(r.array)
    /\ r.ptr_var >= 0 /\ r.ptr_var < Len(r.array)

\* s is optimized, s and optimize(s) are compiled, and both functions are
\* at their first instruction; with a panic of optimize there is no second
\* function (a build with overflow checks is followed only where a push
\* panics: everywhere else push does what the wrapping build does)
InitEquiv ==
    /\ input \in EquivPrograms
    /\ overflow_checks \in {oc \in BOOLEAN : oc => optimize(input, oc).status # "ok"}
    /\ LET o == optimize(input, overflow_checks)
       IN /\ list = o.list
          /\ loop_comment_depth = o.loop_comment_depth
          /\ status = o.status
    /\ source = <<>>
    /\ \E r \in Revisions, c \in EquivCaches, p \in MemoryOverflowBehaviours :
         machine = BfMachine(r, Wide(0, c), input, p, FALSE)
    /\ LET a == compile(machine)
           b == compile([machine EXCEPT !.instructions = list])
       IN /\ gen = [a |-> a, b |-> IF status = "ok" THEN b ELSE a]
          /\ \E stdin \in Stdins(input) :
               run = [a |-> track(at_start(a, machine)),
                      b |-> IF status = "ok" THEN track(at_start(b, machine))
                            ELSE [track(call) EXCEPT !.end = "panicked"],
                      stdin |-> stdin,
                      in_range |-> TRUE]

\* both functions execute one instruction, as long as they run
StepPair ==
    /\ run.a.end = "none" \/ run.b.end = "none"
    /\ \E x \in loaded(gen.a, run.a), y \in loaded(gen.b, run.b) :
         LET a1 == advance(gen.a, run.a, run.stdin, x)
             b1 == advance(gen.b, run.b, run.stdin, y)
         IN run' = [run EXCEPT !.a = a1, !.b = b1,
                               !.in_range = @ /\ InRange(a1.r)]
    /\ UNCHANGED <<list, loop_comment_depth, status, overflow_checks, input,
                   source, machine, gen>>

EquivSpec == InitEquiv /\ [][StepPair]_vars

\* one sequence is the beginning of the other
Prefix(s, t) ==
    LET n == IF Len(s) < Len(t) THEN Len(s) ELSE Len(t)
    IN SubSeq(s, 1, n) = SubSeq(t, 1, n)

\* both calls are over and have behaved alike: the same end and the bytes
\* written; after a ret the same bytes read, the same block (epilogue or
\* abort block) and returned value (when that value is determined), and
\* after the ret of the epilogue the same memory and index
SameBehaviour ==
    /\ run.b.end = run.a.end
    /\ Prefix(run.a.r.stdout, run.b.r.stdout)
    /\ run.a.end = "returned" =>
         /\ run.b.r.stdout = run.a.r.stdout
         /\ run.b.pos = run.a.pos
         /\ run.b.r.exit = run.a.r.exit
         /\ run.b.r.ub = run.a.r.ub
         /\ ~run.a.r.ub => run.b.r.result = run.a.r.result
         /\ run.a.r.exit = "success" =>
              /\ run.b.r.array = run.a.r.array
              /\ run.b.r.index_var = run.a.r.index_var
              /\ run.b.r.ptr_var = run.a.r.ptr_var

BothEnded == run.a.end # "none" /\ run.b.end # "none"

(* C31: under the Undefined policy, for every balanced sequence s whose
   execution keeps the index inside the array, the function generated for
   optimize(s) reads the same input, writes the same bytes, ends exactly
   when that of s ends, and leaves the same memory, index and returned
   value. *)
C31_OptimizePreserves ==
    (machine.memory_overflow = "Undefined" /\ BothEnded /\ run.in_range)
        => SameBehaviour

\* the same in a build without overflow checks, where no push panics
C31_WrappingBuildPreserves == ~overflow_checks => C31_OptimizePreserves

\* optimize has rewritten a sequence with a loop, and both functions have
\* returned after writing a byte, the index always inside the array
C31_RewrittenLoopRan ==
    /\ machine.memory_overflow = "Undefined"
    /\ status = "ok" /\ list # input /\ (\E j \in 1..Len(input) : input[j] = BeginLoop)
    /\ run.in_range
    /\ run.a.end = "returned" /\ run.b.end = "returned"
    /\ run.a.r.stdout # <<>>

(* C32: under the Wrap and Abort policies, for every balanced sequence s and
   every capacity, the function generated for optimize(s) writes the same
   bytes, ends the same way (return or abort) and leaves the same index,
   memory and returned value as the function generated for s. *)
C32_OptimizePreservesChecked ==
    (machine.memory_overflow \in {"Wrap", "Abort"} /\ BothEnded)
        => SameBehaviour

\* the two parts of C32 in a build without overflow checks, where no push
\* panics: under Abort both functions end in the same block, and under Wrap
\* they leave the same index
C32_AbortAlike ==
    (~overflow_checks /\ machine.memory_overflow = "Abort" /\ BothEnded)
        => run.b.r.exit = run.a.r.exit

C32_WrapIndexAlike ==
    (~overflow_checks /\ machine.memory_overflow = "Wrap" /\ BothEnded
        /\ run.a.end = "returned" /\ run.b.end = "returned")
        => run.b.r.index_var = run.a.r.index_var

\* the sum of the offsets of a sequence of AddPointer
RECURSIVE moved(_)
moved(s) == IF s = <<>> THEN 0 ELSE s[1].v + moved(Tail(s))

OnlyMoves(s) == \A j \in 1..Len(s) : s[j].op = "AddPointer"

(* C33: under the Wrap policy the index after a sequence of pointer moves is
   the non-negative remainder of the sum of the moves modulo the capacity,
   for every capacity, powers of two or not. *)
C33_WrapIsRemainder ==
    (machine.memory_overflow = "Wrap" /\ OnlyMoves(input)
        /\ run.a.end = "returned")
        => run.a.r.index_var = moved(input) % machine.cache_size.lo

\* the same for the capacities that divide 2^32
C33_WrapPowerOfTwo ==
    machine.cache_size.lo \in {1, 2} => C33_WrapIsRemainder

\* a run under Wrap has stepped below index 0 in two cells and returned
C33_WrappedBelowZero ==
    /\ machine.memory_overflow = "Wrap" /\ OnlyMoves(input)
    /\ machine.cache_size.lo = 2
    /\ moved(input) < 0
    /\ run.a.end = "returned"

====
